---- MODULE Spec2Model ----
(***************************************************************************)
(* A model of the skypay game server: the per-tick physics engine          *)
(* (PhysicsEngine), the match and its tick scheduler (Match, MatchManager) *)
(* and the connection layer's snapshot broadcast (WebSocketServerManager). *)
(*                                                                         *)
(* Numbers.  The source computes in IEEE doubles.  The model computes in   *)
(* fixed point: lengths and speeds are integers counting 1/Scale of a      *)
(* world unit, durations are integers counting milliseconds, angles are    *)
(* whole degrees.  Quotients truncate toward zero (Div).                   *)
(***************************************************************************)
EXTENDS Integers, Sequences, FiniteSets, TLC

(***************************************************************************)
(* Bounds of the model.                                                    *)
(***************************************************************************)
\* fixed-point resolution: one world unit is Scale model units
Scale == 10
\* Match.tick is not taken once currentTick has reached MaxTick
MaxTick == 2
\* input sequence numbers sent by clients are 0..MaxSeq
MaxSeq == 1
\* GAME_CONSTANTS.INPUT_BUFFER_SIZE is 60 in the source; the model runs the
\* same queue code with a shorter buffer so that overflow is reached
INPUT_BUFFER_SIZE == 2
\* SpecPhysics calls PhysicsEngine.updatePlayer at most MaxUpdates times
MaxUpdates == 2

(***************************************************************************)
(* GAME_CONSTANTS (packages/shared/src/constants.ts), in world units.      *)
(***************************************************************************)
MAX_SPEED == 500
MIN_SPEED == 50
ACCELERATION == 100
BRAKE_DECELERATION == 300
TUCK_ACCELERATION_BONUS == 50
\* FRICTION 0.98, in percent
FRICTION_PCT == 98
TURN_RATE == 200
JUMP_VELOCITY == 150
GRAVITY == 400
\* AIRBORNE_DURATION_MIN 0.3 s and AIRBORNE_DURATION_MAX 1.5 s, in ms
AIRBORNE_DURATION_MIN_MS == 300
AIRBORNE_DURATION_MAX_MS == 1500
PLAYER_RADIUS == 16
OBSTACLE_CHECK_RADIUS == 100
SERVER_TICK_RATE == 20
DISTANCE_SCORE_MULTIPLIER == 1
TRICK_SCORE_BASE == 100
OBSTACLE_HIT_PENALTY == -50
PICKUP_SCORE == 50
\* const effectDuration = 5000 in updatePlayer
EFFECT_DURATION_MS == 5000

\* PlayerState
SKIING == "skiing"
JUMPING == "jumping"
CRASHED == "crashed"
FINISHED == "finished"
PlayerState == {SKIING, JUMPING, CRASHED, FINISHED}

\* MatchStatus
LOBBY == "lobby"
ACTIVE == "active"
COMPLETE == "complete"
MatchStatus == {LOBBY, ACTIVE, COMPLETE}

\* PickupType, as listed by PhysicsEngine.isPickup
PickupTypes == {"speed_boost", "invulnerable", "score_multiplier"}
\* ObstacleType
ObstacleTypes == {"tree", "rock", "stump", "snowman", "jump", "ice"}

\* this.tickInterval = null: no timer handle (handles count from 1)
NoTimer == 0

(***************************************************************************)
(* Arithmetic helpers.                                                     *)
(***************************************************************************)
Max(a, b) == IF a >= b THEN a ELSE b
Min(a, b) == IF a <= b THEN a ELSE b

\* a / b for b > 0, truncated toward zero
Div(a, b) == IF a >= 0 THEN a \div b ELSE -((-a) \div b)

RECURSIVE SqrtSearch(_, _, _)
SqrtSearch(n, lo, hi) ==
    IF lo >= hi THEN lo
    ELSE LET mid == (lo + hi + 1) \div 2
         IN  IF mid * mid <= n THEN SqrtSearch(n, mid, hi)
                               ELSE SqrtSearch(n, lo, mid - 1)

\* Math.sqrt, rounded down
ISqrt(n) == SqrtSearch(n, 0, 46340)

\* Math.cos and Math.sin of a whole number of degrees, times 10000, for the
\* angles a tick can turn by (TURN_RATE * dt * steer with steer in -1, 0, 1
\* and dt of 50 or 100 ms)
CosDeg(d) ==
    CASE d = 0 -> 10000
      [] d = 10 \/ d = -10 -> 9848
      [] d = 20 \/ d = -20 -> 9397
SinDeg(d) ==
    CASE d = 0 -> 0
      [] d = 10 -> 1736
      [] d = -10 -> -1736
      [] d = 20 -> 3420
      [] d = -20 -> -3420

(***************************************************************************)
(* PhysicsEngine (apps/server/src/lib/prng.ts, second half).               *)
(* A PlayerPhysics is a record                                             *)
(*   [id, position: [x, y], velocity: [x, y], state, distance, score,      *)
(*    speed, airborneTime, effectExpiry, lastJumpY]                        *)
(* where effectExpiry is a function from the effect names set so far to    *)
(* their expiry time.  A WorldObject is [id, type, position, radius,       *)
(* active].  A PlayerIntent is [steer, brake, tuck, jump].                 *)
(***************************************************************************)
Vec(x, y) == [x |-> x, y |-> y]

isPickup(type) == type \in PickupTypes

\* checkCollisions with "dist <= PLAYER_RADIUS + obj.radius"
checkCollisionsTouching(player, objects) ==
    LET dx(i) == player.position.x - objects[i].position.x
        dy(i) == player.position.y - objects[i].position.y
        reach(i) == PLAYER_RADIUS * Scale + objects[i].radius
        hits == {i \in 1..Len(objects) :
                    /\ objects[i].active
                    /\ dx(i) * dx(i) + dy(i) * dy(i) <= reach(i) * reach(i)}
    IN  IF hits = {} THEN 0 ELSE CHOOSE i \in hits : \A j \in hits : i <= j

\* checkCollisions returning the last object the player overlaps
checkCollisionsLast(player, objects) ==
    LET dx(i) == player.position.x - objects[i].position.x
        dy(i) == player.position.y - objects[i].position.y
        reach(i) == PLAYER_RADIUS * Scale + objects[i].radius
        hits == {i \in 1..Len(objects) :
                    /\ objects[i].active
                    /\ dx(i) * dx(i) + dy(i) * dy(i) < reach(i) * reach(i)}
    IN  IF hits = {} THEN 0 ELSE CHOOSE i \in hits : \A j \in hits : i >= j

\* the index in objects of the first active object the player overlaps, or 0
checkCollisions(player, objects) ==
    LET dx(i) == player.position.x - objects[i].position.x
        dy(i) == player.position.y - objects[i].position.y
        reach(i) == PLAYER_RADIUS * Scale + objects[i].radius
        hits == {i \in 1..Len(objects) :
                    /\ objects[i].active
                    /\ dx(i) * dx(i) + dy(i) * dy(i) < reach(i) * reach(i)}
    IN  IF hits = {} THEN 0 ELSE CHOOSE i \in hits : \A j \in hits : i <= j

\* "Handle jumping" without the test of the player's state
applyJumpAnyState(player, intent) ==
    IF intent.jump = 1
    THEN [player EXCEPT !.state = JUMPING,
                        !.velocity.y = @ + JUMP_VELOCITY * Scale,
                        !.airborneTime = 0,
                        !.lastJumpY = player.position.y]
    ELSE player

\* "Handle jumping"
applyJump(player, intent) ==
    IF player.state = SKIING /\ intent.jump = 1
    THEN [player EXCEPT !.state = JUMPING,
                        !.velocity.y = @ + JUMP_VELOCITY * Scale,
                        !.airborneTime = 0,
                        !.lastJumpY = player.position.y]
    ELSE player

\* "Update airborne state" with the trick bonus on every landing
applyAirborneAnyLanding(player, dtMs) ==
    IF player.state # JUMPING THEN [player |-> player, events |-> <<>>]
    ELSE LET air == player.airborneTime + dtMs
             vy == player.velocity.y - Div(GRAVITY * Scale * dtMs, 1000)
             flying == [player EXCEPT !.airborneTime = air, !.velocity.y = vy]
             trickScore == (TRICK_SCORE_BASE * air) \div AIRBORNE_DURATION_MAX_MS
         IN  IF vy <= 0 /\ air >= AIRBORNE_DURATION_MIN_MS
             THEN [player |-> [flying EXCEPT !.state = SKIING,
                                             !.score = @ + trickScore],
                   events |-> << [type |-> "trick", playerId |-> player.id,
                                  score |-> trickScore] >>]
             ELSE [player |-> flying, events |-> <<>>]

\* "Update airborne state": [player, events]
applyAirborne(player, dtMs) ==
    IF player.state # JUMPING THEN [player |-> player, events |-> <<>>]
    ELSE LET air == player.airborneTime + dtMs
             vy == player.velocity.y - Div(GRAVITY * Scale * dtMs, 1000)
             flying == [player EXCEPT !.airborneTime = air, !.velocity.y = vy]
             trickScore == (TRICK_SCORE_BASE * air) \div AIRBORNE_DURATION_MAX_MS
         IN  IF vy <= 0 /\ air >= AIRBORNE_DURATION_MIN_MS
             THEN IF air >= AIRBORNE_DURATION_MIN_MS /\ air <= AIRBORNE_DURATION_MAX_MS
                  THEN [player |-> [flying EXCEPT !.state = SKIING,
                                                  !.score = @ + trickScore],
                        events |-> << [type |-> "trick", playerId |-> player.id,
                                       score |-> trickScore] >>]
                  ELSE [player |-> [flying EXCEPT !.state = SKIING],
                        events |-> <<>>]
             ELSE [player |-> flying, events |-> <<>>]

\* "Calculate acceleration" and "Apply deceleration", in world units / s^2
acceleration(intent) ==
    IF intent.brake = 1 THEN -BRAKE_DECELERATION
    ELSE IF intent.tuck = 1 THEN ACCELERATION + TUCK_ACCELERATION_BONUS
    ELSE ACCELERATION

\* "Check for invulnerability"
isInvulnerable(player, serverTime) ==
    /\ "invulnerable" \in DOMAIN player.effectExpiry
    /\ player.effectExpiry["invulnerable"] > serverTime

\* Math.sqrt(vx ** 2 + vy ** 2)
forwardSpeed(velocity) == ISqrt(velocity.x * velocity.x + velocity.y * velocity.y)

\* "Update velocity" without Math.max(GAME_CONSTANTS.MIN_SPEED, ...)
newSpeedOfNoFloor(player, intent, dtMs) ==
    Min(MAX_SPEED * Scale,
        forwardSpeed(player.velocity)
            + Div(acceleration(intent) * Scale * dtMs, 1000))

\* "Update velocity": the clamped speed after accelerating for dt
newSpeedOf(player, intent, dtMs) ==
    Max(MIN_SPEED * Scale,
        Min(MAX_SPEED * Scale,
            forwardSpeed(player.velocity)
                + Div(acceleration(intent) * Scale * dtMs, 1000)))

\* the velocity of length newSpeed along the heading of velocity, whose length
\* is fs; Math.atan2(0, 0) is 0, the heading of (1, 0)
rescale(velocity, fs, newSpeed) ==
    IF fs = 0 THEN Vec(newSpeed, 0)
    ELSE Vec(Div(velocity.x * newSpeed, fs), Div(velocity.y * newSpeed, fs))

\* the degrees the heading turns by: TURN_RATE * dt * steer on the ground,
\* none in the air
turnOf(player, intent, dtMs) ==
    IF player.state = SKIING THEN Div(TURN_RATE * dtMs * intent.steer, 1000) ELSE 0

\* the vector u turned by turn degrees
rotate(u, turn) ==
    Vec(Div(u.x * CosDeg(turn) - u.y * SinDeg(turn), 10000),
        Div(u.x * SinDeg(turn) + u.y * CosDeg(turn), 10000))

\* "Apply steering": the velocity of length newSpeed on the new heading
steer(player, intent, dtMs, newSpeed) ==
    rotate(rescale(player.velocity, forwardSpeed(player.velocity), newSpeed),
           turnOf(player, intent, dtMs))

\* "Apply friction", "Update position", "Update distance", "Store current
\* speed", for the steered velocity v
move(player, v, dtMs, newSpeed) ==
    LET vx == Div(v.x * FRICTION_PCT, 100)
        vy == Div(v.y * FRICTION_PCT, 100)
        distanceGain == Max(0, Div(vy * dtMs, 1000))
    IN  [player EXCEPT !.velocity = Vec(vx, vy),
                       !.position = Vec(player.position.x + Div(vx * dtMs, 1000),
                                        player.position.y + Div(vy * dtMs, 1000)),
                       !.distance = @ + distanceGain,
                       !.score = @ + ((distanceGain * DISTANCE_SCORE_MULTIPLIER) \div Scale),
                       !.speed = newSpeed]

\* steering and what follows it, for the clamped speed newSpeed
moveAt(player, intent, dtMs, newSpeed) ==
    move(player, steer(player, intent, dtMs, newSpeed), dtMs, newSpeed)

\* "Update velocity" to "Store current speed"
integrate(player, intent, dtMs) ==
    moveAt(player, intent, dtMs, newSpeedOf(player, intent, dtMs))

\* the branch of "Check collisions" for the object objects[i] that
\* checkCollisions returned, or for none (i = 0): [player, events, hit] where
\* hit is the index in objects of a pickup the player has just consumed
\* (obj.active = false), or 0
collideWith(player, objects, i, serverTime) ==
    IF i = 0 THEN [player |-> player, events |-> <<>>, hit |-> 0]
    ELSE IF isPickup(objects[i].type)
    THEN [player |-> [player EXCEPT
              !.score = @ + PICKUP_SCORE,
              !.effectExpiry =
                  [k \in DOMAIN @ \cup {objects[i].type} |->
                      IF k = objects[i].type
                      THEN serverTime + EFFECT_DURATION_MS ELSE @[k]]],
          events |-> << [type |-> "pickup", playerId |-> player.id,
                         pickupType |-> objects[i].type] >>,
          hit |-> i]
    ELSE [player |-> [player EXCEPT !.state = CRASHED,
                                    !.velocity = Vec(0, 0),
                                    !.score = @ + OBSTACLE_HIT_PENALTY],
          events |-> << [type |-> "collision", playerId |-> player.id,
                         objectId |-> objects[i].id] >>,
          hit |-> 0]

\* "Check collisions" without the test of the state and of invulnerability
collideUnguarded(player, objects, invulnerable, serverTime) ==
    collideWith(player, objects, checkCollisions(player, objects), serverTime)

\* "Check collisions"
collide(player, objects, invulnerable, serverTime) ==
    collideWith(player, objects,
                IF player.state = SKIING /\ ~invulnerable
                THEN checkCollisions(player, objects) ELSE 0,
                serverTime)

\* what updatePlayer returns: the events of the airborne step followed by
\* those of the collision step col
updateResult(events, col) ==
    [player |-> col.player, events |-> events \o col.events, hit |-> col.hit]

\* updatePlayer from "Calculate acceleration" on; air is [player, events]
\* as the airborne step left them
updateGrounded(air, intent, dtMs, objects, serverTime) ==
    updateResult(air.events,
                 collide(integrate(air.player, intent, dtMs), objects,
                         isInvulnerable(air.player, serverTime), serverTime))

\* updatePlayer without the early return for a CRASHED player
updatePlayerCrashedToo(player, intent, dtMs, objects, serverTime) ==
    updateGrounded(applyAirborne(applyJump(player, intent), dtMs),
                   intent, dtMs, objects, serverTime)

\* PhysicsEngine.updatePlayer: [player, events, hit]
updatePlayer(player, intent, dtMs, objects, serverTime) ==
    IF player.state = CRASHED
    THEN [player |-> player, events |-> <<>>, hit |-> 0]
    ELSE updateGrounded(applyAirborne(applyJump(player, intent), dtMs),
                        intent, dtMs, objects, serverTime)

\* GAME_CONSTANTS.MAX_SPEED * 1.1
speedLimit == (11 * MAX_SPEED * Scale) \div 10

\* maxSpeedChange = accelMax * dt * 2
maxSpeedChange(dtMs) == ((ACCELERATION + TUCK_ACCELERATION_BONUS) * Scale * dtMs * 2) \div 1000

\* maxDist = GAME_CONSTANTS.MAX_SPEED * dt * 2
maxDist(dtMs) == (MAX_SPEED * Scale * dtMs * 2) \div 1000

\* Math.abs
Abs(n) == IF n >= 0 THEN n ELSE -n

\* { valid: false, reason } and { valid: true }
invalid(reason) == [valid |-> FALSE, reason |-> <<reason>>]
valid == [valid |-> TRUE, reason |-> <<>>]

\* validatePlayerState with the teleportation check before the
\* acceleration check
validatePlayerStateReordered(oldState, newState, dtMs) ==
    IF forwardSpeed(newState.velocity) > speedLimit
    THEN invalid("speed_too_high")
    ELSE IF ISqrt((newState.position.x - oldState.position.x)
                      * (newState.position.x - oldState.position.x)
                  + (newState.position.y - oldState.position.y)
                      * (newState.position.y - oldState.position.y)) > maxDist(dtMs)
    THEN invalid("teleportation")
    ELSE IF Abs(forwardSpeed(newState.velocity) - forwardSpeed(oldState.velocity))
                > maxSpeedChange(dtMs)
    THEN invalid("acceleration_too_high")
    ELSE valid

\* PhysicsEngine.validatePlayerState; Math.sqrt is rounded down, which is
\* exact for the velocities and positions it is called with here
validatePlayerState(oldState, newState, dtMs) ==
    IF forwardSpeed(newState.velocity) > speedLimit
    THEN invalid("speed_too_high")
    ELSE IF Abs(forwardSpeed(newState.velocity) - forwardSpeed(oldState.velocity))
                > maxSpeedChange(dtMs)
    THEN invalid("acceleration_too_high")
    ELSE IF ISqrt((newState.position.x - oldState.position.x)
                      * (newState.position.x - oldState.position.x)
                  + (newState.position.y - oldState.position.y)
                      * (newState.position.y - oldState.position.y)) > maxDist(dtMs)
    THEN invalid("teleportation")
    ELSE valid

(***************************************************************************)
(* MapGenerator.getObjectsNear (apps/server/src/physics/map-generator.ts). *)
(* The object store of a match's generator is a sequence of WorldObjects   *)
(* in insertion order; which objects the seed puts there is an input of    *)
(* the model (Worlds).                                                     *)
(***************************************************************************)
getObjectsNear(objects, x, y, radius) ==
    LET near(o) ==
            LET dx == o.position.x - x
                dy == o.position.y - y
            IN  dx * dx + dy * dy <= radius * radius /\ o.active
    IN  SelectSeq(objects, near)

(***************************************************************************)
(* Match (apps/server/src/match/match-manager.ts).  A match is a record    *)
(*   [status, players, currentTick, tickInterval, objects]                 *)
(* players is the roster Map in insertion order, a sequence of             *)
(* MatchPlayers [id, physics, lastAckedSeq, inputQueue, connected];        *)
(* an inputQueue entry is [seq, intent] (its timestamp is never read);     *)
(* tickInterval is NoTimer or the handle setInterval returned; objects is the *)
(* store of the match's MapGenerator.                                      *)
(***************************************************************************)
\* the maxPlayers argument the modelled matches are constructed with
maxPlayers == 2
\* the tickRate argument: the default
tickRate == SERVER_TICK_RATE
\* const dt = 1 / this.tickRate, in ms
DtMs == 1000 \div tickRate

NeutralIntent == [steer |-> 0, brake |-> 0, tuck |-> 0, jump |-> 0]

\* new Match(...)
newMatch(world) ==
    [status |-> LOBBY, players |-> <<>>, currentTick |-> 0,
     tickInterval |-> NoTimer, objects |-> world]

\* this.players.has(playerId)
hasPlayer(m, playerId) == \E i \in 1..Len(m.players) : m.players[i].id = playerId

\* Match.getPlayer, for a playerId the roster has
getPlayer(m, playerId) ==
    m.players[CHOOSE i \in 1..Len(m.players) : m.players[i].id = playerId]

\* the MatchPlayer that addPlayer builds
newPlayer(playerId) ==
    [id |-> playerId,
     physics |-> [id |-> playerId,
                  position |-> Vec(0, 0),
                  velocity |-> Vec(0, MIN_SPEED * Scale),
                  state |-> SKIING,
                  distance |-> 0,
                  score |-> 0,
                  speed |-> MIN_SPEED * Scale,
                  airborneTime |-> 0,
                  effectExpiry |-> << >>,
                  lastJumpY |-> 0],
     lastAckedSeq |-> -1,
     inputQueue |-> <<>>,
     connected |-> TRUE]

\* addPlayerResult without the check of the capacity
addPlayerResultUncapped(m, playerId) ==
    IF hasPlayer(m, playerId) THEN FALSE ELSE TRUE

\* Match.addPlayer: the value it returns
addPlayerResult(m, playerId) ==
    IF Len(m.players) >= maxPlayers THEN FALSE
    ELSE IF hasPlayer(m, playerId) THEN FALSE
    ELSE TRUE

\* Match.addPlayer: the match after the call
addPlayer(m, playerId) ==
    IF addPlayerResult(m, playerId)
    THEN [m EXCEPT !.players = Append(@, newPlayer(playerId))]
    ELSE m

\* removePlayer that drops the slot from the roster
removePlayerDeletes(m, playerId) ==
    [m EXCEPT !.players =
        [i \in 1..Cardinality({k \in 1..Len(@) : @[k].id # playerId}) |->
            @[CHOOSE k \in 1..Len(@) :
                /\ @[k].id # playerId
                /\ Cardinality({l \in 1..k : @[l].id # playerId}) = i]]]

\* Match.removePlayer
removePlayer(m, playerId) ==
    [m EXCEPT !.players =
        [i \in 1..Len(@) |->
            IF @[i].id = playerId THEN [@[i] EXCEPT !.connected = FALSE] ELSE @[i]]]

\* pushInput without the shift on overflow
pushInputUnbounded(queue, seq, intent) ==
    Append(queue, [seq |-> seq, intent |-> intent])

\* the queue after push and the shift on overflow
pushInput(queue, seq, intent) ==
    LET pushed == Append(queue, [seq |-> seq, intent |-> intent])
    IN  IF Len(pushed) > INPUT_BUFFER_SIZE THEN Tail(pushed) ELSE pushed

\* Match.queueInput
queueInput(m, playerId, seq, intent) ==
    [m EXCEPT !.players =
        [i \in 1..Len(@) |->
            IF @[i].id = playerId
            THEN [@[i] EXCEPT !.inputQueue = pushInput(@, seq, intent)]
            ELSE @[i]]]

\* a start that leaves the match as it is
startIdle(m, handle) == m

\* start without its guard on the status
startFromAny(m, handle) ==
    [m EXCEPT !.status = ACTIVE, !.currentTick = 0, !.tickInterval = handle]

\* Match.start; handle is what setInterval returns
start(m, handle) ==
    IF m.status # LOBBY THEN m
    ELSE [m EXCEPT !.status = ACTIVE, !.currentTick = 0, !.tickInterval = handle]

\* the timers Match.start arms: [handle, loop], loop naming the callback
startArms(m, handle) ==
    IF m.status # LOBBY THEN {} ELSE {[handle |-> handle, loop |-> "tick"]}

\* Match.end, up to its first await: status and timer
end(m) ==
    IF m.status = COMPLETE THEN m
    ELSE [m EXCEPT !.status = COMPLETE, !.tickInterval = NoTimer]

\* an end that leaves the tick timer armed
endClearsNone(m) == {}

\* the interval handles Match.end clears
endClears(m) ==
    IF m.status = COMPLETE \/ m.tickInterval = NoTimer THEN {} ELSE {m.tickInterval}

\* Array.prototype.sort with (a, b) => b.physics.score - a.physics.score puts
\* player into sorted behind the entries whose score is not lower (the sort
\* is stable)
RECURSIVE insertByScore(_, _)
insertByScore(sorted, player) ==
    IF sorted = <<>> THEN <<player>>
    ELSE IF Head(sorted).physics.score >= player.physics.score
    THEN <<Head(sorted)>> \o insertByScore(Tail(sorted), player)
    ELSE <<player>> \o sorted

\* the roster sorted by descending score
RECURSIVE sortByScore(_)
sortByScore(players) ==
    IF players = <<>> THEN <<>>
    ELSE insertByScore(sortByScore(SubSeq(players, 1, Len(players) - 1)),
                       players[Len(players)])

\* the map over the sorted roster: placement is index + 1
resultsOf(sorted) ==
    [i \in 1..Len(sorted) |->
        [playerId |-> sorted[i].id,
         placement |-> i,
         score |-> sorted[i].physics.score,
         distance |-> sorted[i].physics.distance]]

\* final results of the players still connected only
IsConnected(player) == player.connected
finalResultsConnected(m) == resultsOf(sortByScore(SelectSeq(m.players, IsConnected)))

\* Match.end, "Calculate final results"
finalResults(m) == resultsOf(sortByScore(m.players))

\* end() without its guard on COMPLETE: every call hands results over
endHandsOffAgain(m) == << finalResults(m) >>

\* the result lists a call of Match.end hands to persistence ("Persist to
\* database"): none on a COMPLETE match, else the final results
endHandsOff(m) ==
    IF m.status = COMPLETE THEN <<>> ELSE << finalResults(m) >>

\* the hand-offs after the calls of prisma.match.update begun for the result
\* lists in begun, each pending until its promise settles
persistBegin(hand, begun) ==
    [hand EXCEPT !.handoffs = @ + Len(begun), !.pending = @ + Len(begun)]

\* the awaited updates of a hand-off all resolved
persistResolved(hand) == [hand EXCEPT !.pending = @ - 1]

\* persistRejected leaving the rejection to the caller of end
persistRejectedUncaught(hand) ==
    [hand EXCEPT !.pending = @ - 1, !.unhandled = @ + 1]

\* an awaited update of a hand-off rejected: the catch block logs
\* 'Failed to persist match results'
persistRejected(hand) ==
    [hand EXCEPT !.pending = @ - 1, !.failures = @ + 1]

\* clearInterval on each of the handles
clearIntervals(timers, cleared) == {t \in timers : t.handle \notin cleared}

\* Date.now() in a tick: the timer fires every 1000 / tickRate ms, so the
\* clock of tick number n reads n * DtMs after the start
serverTimeAt(currentTick) == currentTick * DtMs

\* "Get latest input from queue": the player after its queue is collapsed
collapseInput(player) ==
    IF Len(player.inputQueue) > 0
    THEN LET latestInput == player.inputQueue[Len(player.inputQueue)]
             keep(input) == input.seq >= latestInput.seq
         IN  [player EXCEPT !.lastAckedSeq = latestInput.seq,
                            !.inputQueue = SelectSeq(@, keep)]
    ELSE player

\* intentOf taking the oldest entry of the queue
intentOfOldest(player) ==
    IF Len(player.inputQueue) > 0
    THEN player.inputQueue[1].intent
    ELSE NeutralIntent

\* the intent the tick passes to updatePlayer for this player
intentOf(player) ==
    IF Len(player.inputQueue) > 0
    THEN player.inputQueue[Len(player.inputQueue)].intent
    ELSE NeutralIntent

\* a store on which obj.active = false has no effect
deactivateNone(objects, id) == objects

\* obj.active = false on the store's object with this id
deactivate(objects, id) ==
    [i \in 1..Len(objects) |->
        IF objects[i].id = id THEN [objects[i] EXCEPT !.active = FALSE]
        ELSE objects[i]]

\* the end of one iteration of the loop over this.players.entries(): acc
\* after updatePlayer returned r for player number i
tickRecord(acc, i, acked, intent, nearbyObjects, r) ==
    [players |-> [acc.players EXCEPT ![i] = [acked EXCEPT !.physics = r.player]],
     objects |-> IF r.hit = 0 THEN acc.objects
                 ELSE deactivate(acc.objects, nearbyObjects[r.hit].id),
     events |-> acc.events \o r.events,
     calls |-> Append(acc.calls, [playerId |-> acked.id, intent |-> intent])]

\* "Update physics" and "Update player state" for player number i, whose
\* queue has been collapsed (acked) and whose intent has been chosen
tickUpdate(acc, i, acked, intent, nearbyObjects, serverTime) ==
    tickRecord(acc, i, acked, intent, nearbyObjects,
               updatePlayer(acked.physics, intent, DtMs, nearbyObjects, serverTime))

\* one iteration of the loop over this.players.entries() in Match.tick:
\* acc is [players, objects, events, calls], the roster and the store as
\* mutated so far, allEvents, and the (playerId, intent) pairs updatePlayer
\* was called with
tickPlayer(acc, i, serverTime) ==
    IF ~acc.players[i].connected THEN acc
    ELSE tickUpdate(acc, i, collapseInput(acc.players[i]), intentOf(acc.players[i]),
                    getObjectsNear(acc.objects,
                                   acc.players[i].physics.position.x,
                                   acc.players[i].physics.position.y,
                                   OBSTACLE_CHECK_RADIUS * Scale),
                    serverTime)

RECURSIVE tickLoop(_, _, _)
tickLoop(acc, i, serverTime) ==
    IF i > Len(acc.players) THEN acc
    ELSE tickLoop(tickPlayer(acc, i, serverTime), i + 1, serverTime)

\* shouldEnd counting the players that left among the active ones
shouldEndCountingAll(m) ==
    LET activePlayers == {i \in 1..Len(m.players) :
                             m.players[i].physics.state # CRASHED}
    IN  activePlayers = {} /\ Len(m.players) > 0

\* "Check if match should end"
shouldEnd(m) ==
    LET activePlayers == {i \in 1..Len(m.players) :
                             /\ m.players[i].connected
                             /\ m.players[i].physics.state # CRASHED}
    IN  activePlayers = {} /\ Len(m.players) > 0

\* "Check if match should end", for the match and the loop's results
tickEnd(after, done) ==
    [match |-> IF shouldEnd(after) THEN end(after) ELSE after,
     events |-> done.events,
     calls |-> done.calls,
     cleared |-> IF shouldEnd(after) THEN endClears(after) ELSE {},
     handed |-> IF shouldEnd(after) THEN endHandsOff(after) ELSE <<>>]

\* the match after the loop over the players returned done
tickDone(m, n, done) ==
    tickEnd([m EXCEPT !.currentTick = n,
                      !.players = done.players,
                      !.objects = done.objects],
            done)

\* Match.tick: [match, events, calls, cleared, handed], the match after the
\* tick, allEvents, the updatePlayer calls made, the interval handles cleared
\* and the result lists handed to persistence
tickRun(m) ==
    tickDone(m, m.currentTick + 1,
             tickLoop([players |-> m.players, objects |-> m.objects,
                       events |-> <<>>, calls |-> <<>>],
                      1, serverTimeAt(m.currentTick + 1)))

\* Match.getState (serverTime left out)
getState(m) ==
    [tick |-> m.currentTick,
     players |-> [i \in 1..Len(m.players) |->
                    [id |-> m.players[i].id,
                     x |-> m.players[i].physics.position.x,
                     y |-> m.players[i].physics.position.y,
                     vx |-> m.players[i].physics.velocity.x,
                     vy |-> m.players[i].physics.velocity.y,
                     state |-> m.players[i].physics.state,
                     distance |-> m.players[i].physics.distance,
                     score |-> m.players[i].physics.score]]]

(***************************************************************************)
(* MatchManager (apps/server/src/match/match-manager.ts).  The model holds *)
(* one match; registered says whether MatchManager.matches holds it.       *)
(***************************************************************************)
\* MatchManager.removeMatch: the match after the call
removeMatch(m, isRegistered) == IF isRegistered THEN end(m) ELSE m

\* the result lists MatchManager.removeMatch hands to persistence
removeHandsOff(m, isRegistered) == IF isRegistered THEN endHandsOff(m) ELSE <<>>

(***************************************************************************)
(* State.                                                                  *)
(***************************************************************************)
VARIABLES
    match,        \* the Match object
    registered,   \* TRUE while MatchManager.matches maps the match's id to it
    intervals,    \* the armed setInterval timers, [handle, loop]
    handles,      \* how many timer handles have been handed out
    joined,       \* what the latest Match.addPlayer call returned (FALSE before any)
    allEvents,    \* allEvents at the end of the latest Match.tick
    calls,        \* the updatePlayer calls of the latest Match.tick
    sinceTick,    \* the players an input was queued for since the latest tick
    conns,        \* the AuthenticatedWebSockets: [playerId, matchId, readyState]
    nextPlayer,   \* how many player ids nanoid() has handed out
    creating,     \* the connections whose handleAuth awaits prisma.match.create
    timeouts,     \* how many setTimeout(..., 3000) start timers are pending
    broadcastInterval, \* broadcastIntervals.get(matchId), or NoTimer
    sent,         \* per connection, the message the step just taken sent it
    handed,       \* the result lists the step just taken handed to persistence
    db,           \* the persistence hand-offs: [handoffs, pending, failures, unhandled]
    owned,        \* per connection, the player ids handleAuth added for it
    probes,       \* per connection, the pings sent it since its latest pong
    other,        \* a second Match of the MatchManager
    rng,          \* the PRNG objects: the state of each
    drawn,        \* the calls made on each PRNG, each with what it returned
    gens,         \* the MapGenerator objects
    returned,     \* the latest generateChunk call: [gen, chunk, list]
    firsts,       \* what the first generateChunk call of each chunk returned
    args,         \* the arguments of a call of a PhysicsEngine method on its own
    result,       \* what that call returned, once it has
    client,       \* the client's GameEngine
    wsClient,     \* the client's WebSocketClient, its sockets and its timers
    snapshot      \* the latest snapshot the client has handled

matchVars == <<match, registered, intervals, handles>>
auxVars == <<joined, allEvents, calls, sinceTick>>
connVars == <<conns, nextPlayer, creating, timeouts, broadcastInterval>>
sideVars == <<db, owned, probes, other>>
gameVars == <<match, registered, intervals, handles, joined, allEvents, calls,
              sinceTick, conns, nextPlayer, creating, timeouts, broadcastInterval,
              sent, handed, db, owned, probes, other>>
prngVars == <<rng, drawn>>
mapVars == <<gens, returned, firsts>>
callVars == <<args, result>>
clientVars == <<client, wsClient, snapshot>>
libVars == <<prngVars, mapVars, callVars, clientVars>>
vars == <<gameVars, libVars>>

(***************************************************************************)
(* Inputs.                                                                 *)
(***************************************************************************)
PlayerIds == {"p1", "p2", "p3"}
Seqs == 0..MaxSeq
JumpIntent == [steer |-> 0, brake |-> 0, tuck |-> 0, jump |-> 1]
BrakeIntent == [steer |-> 0, brake |-> 1, tuck |-> 0, jump |-> 0]
BrakeTuckIntent == [steer |-> 0, brake |-> 1, tuck |-> 1, jump |-> 0]
\* two intents the engine moves a player alike for (brake overrides tuck), so
\* that the runs of SpecQueue differ by their queues and not by their physics
QueueIntents == {BrakeIntent, BrakeTuckIntent}

Rock(id, x, y) ==
    [id |-> id, type |-> "rock", position |-> Vec(x * Scale, y * Scale),
     radius |-> 15 * Scale, active |-> TRUE]
Pickup(id, type, x, y) ==
    [id |-> id, type |-> type, position |-> Vec(x * Scale, y * Scale),
     radius |-> 10 * Scale, active |-> TRUE]

\* the object store the modelled seed generates around the start: a pickup
\* that a player starting at the origin collects in its first tick and a rock
\* that it hits in its second, unless it jumps
World ==
    << Pickup("speed_boost-0-20", "speed_boost", 0, 20), Rock("rock-0-35", 0, 35) >>

ConnIds == {"c1", "c2"}
\* the ids nanoid() returns, in the order it returns them
PlayerSeq == <<"p1", "p2", "p3">>
\* the id of the one match the server creates
MatchId == "m1"
\* an undefined playerId or matchId
None == "none"
\* WebSocket.readyState
OPEN == "open"
CLOSING == "closing"
CLOSED == "closed"
\* a socket as handleConnection leaves it
NewConn == [playerId |-> None, matchId |-> None, readyState |-> OPEN, isAlive |-> TRUE]
\* no message
NoSnapshot == [type |-> "none"]
\* a step that sends no snapshot and no error
Quiet == [c \in ConnIds |-> NoSnapshot]
\* no result list has been handed to persistence
NoHandoffs == [handoffs |-> 0, pending |-> 0, failures |-> 0, unhandled |-> 0]
\* the names of the PRNG objects and of the MapGenerator objects
Gens == {"a", "b"}
\* no PRNG has been constructed for the match and the server
\* no call of a PhysicsEngine method on its own
NoCall == [fn |-> "none"]
NoResult == [done |-> FALSE]

\* the fields of a GameEngine after construction (those of multiplayer
\* play): players holds the ids of the latest snapshot's players,
\* predictedStates the [tick, seq] of each entry
newGameEngine ==
    [myPlayerId |-> None, players |-> {}, inputSeq |-> 0, currentTick |-> 0,
     predictedStates |-> <<>>]

\* new WebSocketClient(url, callbacks), with no socket constructed and no
\* timer pending: ws is the number of the socket this.ws refers to (0 for
\* null), sockets the readyState of each socket constructed so far, timers
\* how many reconnection timeouts are pending, and requested whether
\* disconnect() was the latest call the application made
newWebSocketClient ==
    [ws |-> 0, status |-> "disconnected", reconnectAttempts |-> 0,
     sockets |-> <<>>, timers |-> 0, requested |-> FALSE]

\* no snapshot handled yet; dropped counts the predicted states the
\* handling of a snapshot has removed
NoneReceived == [players |-> {}, ackSeq |-> 0, dropped |-> 0]

ClientIdle ==
    /\ client = newGameEngine
    /\ wsClient = newWebSocketClient
    /\ snapshot = NoneReceived

LibIdle ==
    /\ args = NoCall
    /\ result = NoResult
    /\ ClientIdle
    /\ rng = [g \in Gens |-> [hi |-> 0, lo |-> 0]]
    /\ drawn = [g \in Gens |-> <<>>]
    /\ gens = [g \in Gens |-> [prng |-> [hi |-> 0, lo |-> 0],
                               generatedChunks |-> {}, objects |-> <<>>]]
    /\ returned = [gen |-> "none"]
    /\ firsts = {}

(***************************************************************************)
(* The Match API, called in any order (specification SpecMatch).           *)
(***************************************************************************)
InitMatch ==
    /\ match = newMatch(World)
    /\ registered = TRUE
    /\ intervals = {}
    /\ handles = 0
    /\ joined = FALSE
    /\ allEvents = <<>>
    /\ calls = <<>>
    /\ sinceTick = {}
    /\ conns = [c \in ConnIds |-> NewConn]
    /\ nextPlayer = 0
    /\ creating = {}
    /\ timeouts = 0
    /\ broadcastInterval = NoTimer
    /\ sent = Quiet
    /\ handed = <<>>
    /\ db = NoHandoffs
    /\ owned = [c \in ConnIds |-> {}]
    /\ probes = [c \in ConnIds |-> 0]
    /\ other = newMatch(<<>>)
    /\ LibIdle

AddPlayer(p) ==
    /\ match' = addPlayer(match, p)
    /\ joined' = addPlayerResult(match, p)
    /\ UNCHANGED <<registered, intervals, handles, allEvents, calls, sinceTick>>
    /\ UNCHANGED connVars
    /\ sent' = Quiet
    /\ handed' = <<>>
    /\ UNCHANGED libVars
    /\ UNCHANGED sideVars

RemovePlayer(p) ==
    /\ match' = removePlayer(match, p)
    /\ UNCHANGED <<registered, intervals, handles, joined, allEvents, calls, sinceTick>>
    /\ UNCHANGED connVars
    /\ sent' = Quiet
    /\ handed' = <<>>
    /\ UNCHANGED libVars
    /\ UNCHANGED sideVars

QueueInput(p, seq, intent) ==
    /\ match' = queueInput(match, p, seq, intent)
    /\ sinceTick' = sinceTick \cup {q \in {p} : hasPlayer(match, q)}
    /\ UNCHANGED <<registered, intervals, handles, joined, allEvents, calls>>
    /\ UNCHANGED connVars
    /\ sent' = Quiet
    /\ handed' = <<>>
    /\ UNCHANGED libVars
    /\ UNCHANGED sideVars

Start ==
    /\ match' = start(match, handles + 1)
    /\ intervals' = intervals \cup startArms(match, handles + 1)
    /\ handles' = handles + Cardinality(startArms(match, handles + 1))
    /\ UNCHANGED <<registered, joined, allEvents, calls, sinceTick>>
    /\ UNCHANGED connVars
    /\ sent' = Quiet
    /\ handed' = <<>>
    /\ UNCHANGED libVars
    /\ UNCHANGED sideVars

\* what a run r of Match.tick leaves behind
TickDoes(r) ==
    /\ match' = r.match
    /\ intervals' = clearIntervals(intervals, r.cleared)
    /\ allEvents' = r.events
    /\ calls' = r.calls
    /\ handed' = r.handed
    /\ UNCHANGED libVars
    /\ db' = persistBegin(db, r.handed)

\* an armed tick interval fires
Tick ==
    /\ \E t \in intervals : t.loop = "tick"
    /\ match.currentTick < MaxTick
    /\ TickDoes(tickRun(match))
    /\ sinceTick' = {}
    /\ UNCHANGED <<registered, handles, joined>>
    /\ UNCHANGED connVars
    /\ sent' = Quiet
    /\ UNCHANGED <<owned, probes, other>>

End ==
    /\ match' = end(match)
    /\ intervals' = clearIntervals(intervals, endClears(match))
    /\ UNCHANGED <<registered, handles, joined, allEvents, calls, sinceTick>>
    /\ UNCHANGED connVars
    /\ sent' = Quiet
    /\ handed' = endHandsOff(match)
    /\ UNCHANGED libVars
    /\ db' = persistBegin(db, endHandsOff(match))
    /\ UNCHANGED <<owned, probes, other>>

RemoveMatch ==
    /\ match' = removeMatch(match, registered)
    /\ intervals' = clearIntervals(intervals, IF registered THEN endClears(match) ELSE {})
    /\ registered' = FALSE
    /\ UNCHANGED <<handles, joined, allEvents, calls, sinceTick>>
    /\ UNCHANGED connVars
    /\ sent' = Quiet
    /\ handed' = removeHandsOff(match, registered)
    /\ UNCHANGED libVars
    /\ db' = persistBegin(db, removeHandsOff(match, registered))
    /\ UNCHANGED <<owned, probes, other>>

\* every call of the API; the inputs queued are jumps of p1 with sequence
\* number 0
NextMatch ==
    \/ \E p \in PlayerIds : AddPlayer(p)
    \/ \E p \in PlayerIds : RemovePlayer(p)
    \/ QueueInput("p1", 0, JumpIntent)
    \/ Start
    \/ Tick
    \/ End
    \/ RemoveMatch

SpecMatch == InitMatch /\ [][NextMatch]_vars

(***************************************************************************)
(* The input queues of a match of two players (specification SpecQueue):   *)
(* p1 sends any input, p2 sends none and may leave, and inputs arrive for   *)
(* p3, which is not in the match.                                          *)
(***************************************************************************)
InitQueue ==
    /\ match = addPlayer(addPlayer(newMatch(<<>>), "p1"), "p2")
    /\ registered = TRUE
    /\ intervals = {}
    /\ handles = 0
    /\ joined = TRUE
    /\ allEvents = <<>>
    /\ calls = <<>>
    /\ sinceTick = {}
    /\ conns = [c \in ConnIds |-> NewConn]
    /\ nextPlayer = 0
    /\ creating = {}
    /\ timeouts = 0
    /\ broadcastInterval = NoTimer
    /\ sent = Quiet
    /\ handed = <<>>
    /\ db = NoHandoffs
    /\ owned = [c \in ConnIds |-> {}]
    /\ probes = [c \in ConnIds |-> 0]
    /\ other = newMatch(<<>>)
    /\ LibIdle

NextQueue ==
    \/ \E seq \in Seqs, intent \in QueueIntents : QueueInput("p1", seq, intent)
    \/ QueueInput("p3", 0, BrakeIntent)
    \/ RemovePlayer("p2")
    \/ Start
    \/ Tick

SpecQueue == InitQueue /\ [][NextQueue]_vars

(***************************************************************************)
(* The end of a match and its persistence hand-off (specification          *)
(* SpecEnd): a match of two players and a second match of one player run   *)
(* side by side; end is called at any time, by a tick or from outside, and *)
(* the updates it awaits resolve or reject.                                *)
(***************************************************************************)
InitEnd ==
    /\ match = addPlayer(addPlayer(newMatch(World), "p1"), "p2")
    /\ registered = TRUE
    /\ intervals = {}
    /\ handles = 0
    /\ joined = TRUE
    /\ allEvents = <<>>
    /\ calls = <<>>
    /\ sinceTick = {}
    /\ conns = [c \in ConnIds |-> NewConn]
    /\ nextPlayer = 0
    /\ creating = {}
    /\ timeouts = 0
    /\ broadcastInterval = NoTimer
    /\ sent = Quiet
    /\ handed = <<>>
    /\ db = NoHandoffs
    /\ owned = [c \in ConnIds |-> {}]
    /\ probes = [c \in ConnIds |-> 0]
    /\ other = addPlayer(newMatch(<<>>), "p3")
    /\ LibIdle

\* prisma.match.update and every prisma.matchPlayer.updateMany of a pending
\* hand-off resolve
PersistResolve ==
    /\ db.pending > 0
    /\ db' = persistResolved(db)
    /\ handed' = <<>>
    /\ UNCHANGED libVars
    /\ sent' = Quiet
    /\ UNCHANGED <<matchVars, auxVars, connVars, owned, probes, other>>

\* one of the awaited updates of a pending hand-off rejects
PersistReject ==
    /\ db.pending > 0
    /\ db' = persistRejected(db)
    /\ handed' = <<>>
    /\ UNCHANGED libVars
    /\ sent' = Quiet
    /\ UNCHANGED <<matchVars, auxVars, connVars, owned, probes, other>>

\* the timers of the second match run the loop "tickOther"
otherTimers(timers) == {[handle |-> t.handle, loop |-> "tickOther"] : t \in timers}

\* start() of the second match
OtherStart ==
    /\ other' = start(other, handles + 1)
    /\ intervals' = intervals \cup otherTimers(startArms(other, handles + 1))
    /\ handles' = handles + Cardinality(startArms(other, handles + 1))
    /\ handed' = <<>>
    /\ UNCHANGED libVars
    /\ sent' = Quiet
    /\ UNCHANGED <<match, registered, auxVars, connVars, db, owned, probes>>

\* what a run r of the second match's tick leaves behind
OtherTickDoes(r) ==
    /\ other' = r.match
    /\ intervals' = clearIntervals(intervals, r.cleared)
    /\ allEvents' = r.events
    /\ calls' = r.calls
    /\ handed' = r.handed
    /\ UNCHANGED libVars
    /\ db' = persistBegin(db, r.handed)

\* the armed tick interval of the second match fires
OtherTick ==
    /\ \E t \in intervals : t.loop = "tickOther"
    /\ other.currentTick < MaxTick
    /\ OtherTickDoes(tickRun(other))
    /\ sent' = Quiet
    /\ UNCHANGED <<match, registered, handles, joined, sinceTick, connVars,
                   owned, probes>>

NextEnd ==
    \/ Start
    \/ Tick
    \/ End
    \/ RemoveMatch
    \/ \E p \in {"p1", "p2"} : RemovePlayer(p)
    \/ PersistResolve
    \/ PersistReject
    \/ OtherStart
    \/ OtherTick

SpecEnd == InitEnd /\ [][NextEnd]_vars

(***************************************************************************)
(* PhysicsEngine.updatePlayer on its own (specification SpecPhysics): one  *)
(* player, updated with any intent, either step length and any of a few    *)
(* sets of nearby objects.  match holds the player, match.currentTick      *)
(* counts the updates, allEvents holds the events of the latest update.    *)
(***************************************************************************)
Intents ==
    [steer : {-1, 0, 1}, brake : {0, 1}, tuck : {0, 1}, jump : {0, 1}]
\* the step lengths: a tick of the server and a double one
Steps == {DtMs, 2 * DtMs}
\* the nearby objects of an update: none, a rock ahead of the start, a rock
\* and a pickup
Nearby ==
    { <<>>,
      << Rock("rock-0-35", 0, 35) >>,
      << Pickup("invulnerable-0-20", "invulnerable", 0, 20), Rock("rock-0-35", 0, 35) >> }

InitPhysics ==
    /\ match = addPlayer(newMatch(<<>>), "p1")
    /\ registered = TRUE
    /\ intervals = {}
    /\ handles = 0
    /\ joined = TRUE
    /\ allEvents = <<>>
    /\ calls = <<>>
    /\ sinceTick = {}
    /\ conns = [c \in ConnIds |-> NewConn]
    /\ nextPlayer = 0
    /\ creating = {}
    /\ timeouts = 0
    /\ broadcastInterval = NoTimer
    /\ sent = Quiet
    /\ handed = <<>>
    /\ db = NoHandoffs
    /\ owned = [c \in ConnIds |-> {}]
    /\ probes = [c \in ConnIds |-> 0]
    /\ other = newMatch(<<>>)
    /\ LibIdle

\* what a call of updatePlayer that returned r leaves behind
UpdateDoes(r) ==
    /\ match' = [match EXCEPT !.players[1].physics = r.player,
                              !.currentTick = @ + 1]
    /\ allEvents' = r.events

\* physicsEngine.updatePlayer(player.physics, intent, dt, objects, now)
Update(intent, dtMs, objects) ==
    /\ match.currentTick < MaxUpdates
    /\ UpdateDoes(updatePlayer(match.players[1].physics, intent, dtMs, objects,
                               serverTimeAt(match.currentTick + 1)))
    /\ UNCHANGED <<registered, intervals, handles, joined, calls, sinceTick>>
    /\ UNCHANGED connVars
    /\ sent' = Quiet
    /\ handed' = <<>>
    /\ UNCHANGED libVars
    /\ UNCHANGED sideVars

NextPhysics ==
    \E intent \in Intents, dtMs \in Steps, objects \in Nearby :
        Update(intent, dtMs, objects)

SpecPhysics == InitPhysics /\ [][NextPhysics]_vars


(***************************************************************************)
(* WebSocketServerManager (apps/server/src/physics/types.ts, second half): *)
(* the server (specification Spec).  Tokens are guest tokens.  The server  *)
(* creates one match, with id MatchId: an auth request that would make it  *)
(* create a second one is not taken.                                       *)
(***************************************************************************)
\* MatchManager.findAvailableMatch found the match (all matches are races)
available(m, isRegistered) ==
    isRegistered /\ m.status = LOBBY /\ Len(m.players) < maxPlayers

\* a close() that leaves the socket open
closeSocketNot(ws) == ws

\* ws.close()
closeSocket(ws) ==
    IF ws.readyState = OPEN THEN [ws EXCEPT !.readyState = CLOSING] ELSE ws

\* a socket that closes instead of answering with an error
sendErrorSilent(ws, c, code) == Quiet

\* sendError: ws.send of a ServerError with the code; a socket that is not
\* OPEN sends nothing
sendError(ws, c, code) ==
    IF ws.readyState = OPEN
    THEN [Quiet EXCEPT ![c] = [type |-> "error", code |-> code]]
    ELSE Quiet

\* startBroadcastLoop without the look at broadcastIntervals
broadcastArmsAgain(isRegistered, current, handle) ==
    IF ~isRegistered THEN {} ELSE {[handle |-> handle, loop |-> "broadcast"]}

\* startBroadcastLoop arms a timer with this handle
broadcastArms(isRegistered, current, handle) ==
    IF ~isRegistered THEN {}
    ELSE IF current # NoTimer THEN {}
    ELSE {[handle |-> handle, loop |-> "broadcast"]}

\* snapshotFor acknowledging the first player of the roster to every socket
snapshotForFirst(m, ws) ==
    [type |-> "snapshot",
     tick |-> getState(m).tick,
     players |-> [i \in 1..Len(m.players) |->
                    [id |-> m.players[i].id,
                     x |-> m.players[i].physics.position.x,
                     y |-> m.players[i].physics.position.y,
                     vx |-> m.players[i].physics.velocity.x,
                     vy |-> m.players[i].physics.velocity.y,
                     state |-> m.players[i].physics.state,
                     distance |-> m.players[i].physics.distance,
                     score |-> m.players[i].physics.score,
                     isYou |-> m.players[i].id = ws.playerId]],
     you |-> [ackSeq |-> m.players[1].lastAckedSeq]]

\* the snapshot the broadcast loop builds for a socket
snapshotFor(m, ws) ==
    LET state == getState(m)
        player == getPlayer(m, ws.playerId)
    IN  [type |-> "snapshot",
         tick |-> state.tick,
         players |-> [i \in 1..Len(state.players) |->
                        [id |-> state.players[i].id,
                         x |-> state.players[i].x,
                         y |-> state.players[i].y,
                         vx |-> state.players[i].vx,
                         vy |-> state.players[i].vy,
                         state |-> state.players[i].state,
                         distance |-> state.players[i].distance,
                         score |-> state.players[i].score,
                         isYou |-> state.players[i].id = ws.playerId]],
         you |-> [ackSeq |-> player.lastAckedSeq]]

\* whether the broadcast loop of the match sends this socket a snapshot
receives(m, ws) ==
    /\ ws.matchId = MatchId
    /\ ws.readyState = OPEN
    /\ ws.playerId # None
    /\ hasPlayer(m, ws.playerId)

\* one run of the broadcast callback on a registered, running match
broadcastRound(m, sockets) ==
    [c \in DOMAIN sockets |->
        IF receives(m, sockets[c]) THEN snapshotFor(m, sockets[c]) ELSE NoSnapshot]

Init ==
    /\ match = newMatch(World)
    /\ registered = FALSE
    /\ intervals = {}
    /\ handles = 0
    /\ joined = FALSE
    /\ allEvents = <<>>
    /\ calls = <<>>
    /\ sinceTick = {}
    /\ conns = [c \in ConnIds |-> NewConn]
    /\ nextPlayer = 0
    /\ creating = {}
    /\ timeouts = 0
    /\ broadcastInterval = NoTimer
    /\ sent = Quiet
    /\ handed = <<>>
    /\ db = NoHandoffs
    /\ owned = [c \in ConnIds |-> {}]
    /\ probes = [c \in ConnIds |-> 0]
    /\ other = newMatch(<<>>)
    /\ LibIdle

\* handleAuth from "Add player to match" on: the socket c, whose fields are
\* now ws, joins match m
Join(c, ws, mode, m) ==
    LET ok == addPlayerResult(m, ws.playerId)
        after == addPlayer(m, ws.playerId)
        arms == broadcastArms(TRUE, broadcastInterval, handles + 1)
    IN  /\ match' = after
        /\ registered' = TRUE
        /\ joined' = ok
        /\ IF ~ok
           THEN /\ conns' = [conns EXCEPT ![c] = closeSocket(ws)]
                /\ sent' = sendError(ws, c, "match_full")
                /\ UNCHANGED <<timeouts, intervals, handles, broadcastInterval, owned>>
           ELSE /\ conns' = [conns EXCEPT ![c] = [ws EXCEPT !.matchId = MatchId]]
                /\ sent' = Quiet
                /\ owned' = [owned EXCEPT ![c] = @ \cup {ws.playerId}]
                /\ IF mode = "race" /\ after.status = LOBBY
                   THEN /\ timeouts' = timeouts + 1
                        /\ UNCHANGED <<intervals, handles, broadcastInterval>>
                   ELSE IF after.status = ACTIVE
                   THEN /\ intervals' = intervals \cup arms
                        /\ handles' = handles + Cardinality(arms)
                        /\ broadcastInterval' =
                               IF arms = {} THEN broadcastInterval ELSE handles + 1
                        /\ UNCHANGED timeouts
                   ELSE UNCHANGED <<timeouts, intervals, handles, broadcastInterval>>

\* the socket after "ws.playerId = nanoid()"
identified(ws, n) == [ws EXCEPT !.playerId = PlayerSeq[n + 1]]

\* an auth message with mode QUICK_RACE: to the end when a match is
\* available, else up to the await of prisma.match.create
AuthQuick(c) ==
    /\ conns[c].readyState = OPEN
    /\ nextPlayer < Len(PlayerSeq)
    /\ nextPlayer' = nextPlayer + 1
    /\ IF available(match, registered)
       THEN /\ Join(c, identified(conns[c], nextPlayer), "race", match)
            /\ UNCHANGED creating
       ELSE /\ ~registered
            /\ creating = {}
            /\ creating' = {c}
            /\ conns' = [conns EXCEPT ![c] = identified(@, nextPlayer)]
            /\ sent' = Quiet
            /\ UNCHANGED <<match, registered, intervals, handles, joined, timeouts,
                           broadcastInterval, owned>>
    /\ UNCHANGED <<allEvents, calls, sinceTick>>
    /\ handed' = <<>>
    /\ UNCHANGED libVars
    /\ UNCHANGED <<db, probes, other>>

\* prisma.match.create resolves: createMatch, and handleAuth runs to its end
AuthCreated(c) ==
    /\ c \in creating
    /\ creating' = creating \ {c}
    /\ Join(c, conns[c], "race", newMatch(World))
    /\ UNCHANGED <<nextPlayer, allEvents, calls, sinceTick>>
    /\ handed' = <<>>
    /\ UNCHANGED libVars
    /\ UNCHANGED <<db, probes, other>>

\* an auth message with mode FRIENDS and a room code
AuthFriends(c, roomCode) ==
    /\ conns[c].readyState = OPEN
    /\ nextPlayer < Len(PlayerSeq)
    /\ nextPlayer' = nextPlayer + 1
    /\ IF registered /\ roomCode = MatchId
       THEN Join(c, identified(conns[c], nextPlayer), "friends", match)
       ELSE /\ conns' = [conns EXCEPT ![c] = closeSocket(identified(@, nextPlayer))]
            /\ sent' = sendError(conns[c], c, "match_not_found")
            /\ UNCHANGED <<match, registered, intervals, handles, joined, timeouts,
                           broadcastInterval, owned>>
    /\ UNCHANGED <<creating, allEvents, calls, sinceTick>>
    /\ handed' = <<>>
    /\ UNCHANGED libVars
    /\ UNCHANGED <<db, probes, other>>

\* an auth message with any other mode: invalid_mode
AuthInvalid(c) ==
    /\ conns[c].readyState = OPEN
    /\ nextPlayer < Len(PlayerSeq)
    /\ nextPlayer' = nextPlayer + 1
    /\ conns' = [conns EXCEPT ![c] = closeSocket(identified(@, nextPlayer))]
    /\ UNCHANGED <<matchVars, auxVars, creating, timeouts, broadcastInterval>>
    /\ sent' = sendError(conns[c], c, "invalid_mode")
    /\ handed' = <<>>
    /\ UNCHANGED libVars
    /\ UNCHANGED sideVars

\* the start timer of handleAuth fires
StartTimeout ==
    /\ timeouts > 0
    /\ timeouts' = timeouts - 1
    /\ IF match.status = LOBBY
       THEN LET arms == broadcastArms(registered, broadcastInterval, handles + 2)
            IN  /\ match' = start(match, handles + 1)
                /\ intervals' = intervals \cup startArms(match, handles + 1) \cup arms
                /\ handles' = handles + 2
                /\ broadcastInterval' =
                       IF arms = {} THEN broadcastInterval ELSE handles + 2
       ELSE UNCHANGED <<match, intervals, handles, broadcastInterval>>
    /\ UNCHANGED <<registered, auxVars, conns, nextPlayer, creating>>
    /\ sent' = Quiet
    /\ handed' = <<>>
    /\ UNCHANGED libVars
    /\ UNCHANGED sideVars

\* handleInput
Input(c, seq, intent) ==
    /\ conns[c].readyState = OPEN
    /\ IF conns[c].playerId = None \/ conns[c].matchId = None \/ ~registered
       THEN UNCHANGED <<match, sinceTick>>
       ELSE /\ match' = queueInput(match, conns[c].playerId, seq, intent)
            /\ sinceTick' = sinceTick \cup
                   {q \in {conns[c].playerId} : hasPlayer(match, q)}
    /\ UNCHANGED <<registered, intervals, handles, joined, allEvents, calls, connVars>>
    /\ sent' = Quiet
    /\ handed' = <<>>
    /\ UNCHANGED libVars
    /\ UNCHANGED sideVars

\* the socket closes: the 'close' event runs handleDisconnect
Close(c) ==
    /\ conns[c].readyState # CLOSED
    /\ conns' = [conns EXCEPT ![c].readyState = CLOSED]
    /\ IF conns[c].playerId # None /\ conns[c].matchId # None /\ registered
       THEN match' = removePlayer(match, conns[c].playerId)
       ELSE UNCHANGED match
    /\ UNCHANGED <<registered, intervals, handles, auxVars, nextPlayer, creating,
                   timeouts, broadcastInterval>>
    /\ sent' = Quiet
    /\ handed' = <<>>
    /\ UNCHANGED libVars
    /\ UNCHANGED sideVars

\* an armed broadcast interval fires
Broadcast ==
    \E t \in intervals :
        /\ t.loop = "broadcast"
        /\ IF ~registered \/ match.status = COMPLETE
           THEN /\ intervals' = intervals \ {t}
                /\ broadcastInterval' = NoTimer
                /\ sent' = Quiet
           ELSE /\ sent' = broadcastRound(match, conns)
                /\ UNCHANGED <<intervals, broadcastInterval>>
        /\ UNCHANGED <<match, registered, handles, auxVars, conns, nextPlayer,
                       creating, timeouts>>
        /\ handed' = <<>>
        /\ UNCHANGED libVars
        /\ UNCHANGED sideVars

Next ==
    \/ \E c \in ConnIds : AuthQuick(c)
    \/ \E c \in ConnIds : AuthCreated(c)
    \/ AuthFriends("c2", MatchId)      \* c2 also joins by the room code
    \/ StartTimeout
    \/ \E c \in ConnIds : Input(c, 0, BrakeIntent)
    \/ \E c \in ConnIds : Close(c)
    \/ Tick
    \/ Broadcast

Spec == Init /\ [][Next]_vars

(***************************************************************************)
(* Messages the server rejects (specification SpecAuth): auth messages     *)
(* that fail, and messages that do not parse or do not match the schema,   *)
(* among the joins of two connections; no tick runs.                       *)
(***************************************************************************)
\* an auth message whose token jwt.verify rejects: the throw is caught at
\* the end of handleAuth, before ws.playerId is assigned
AuthRejected(c) ==
    /\ conns[c].readyState = OPEN
    /\ conns' = [conns EXCEPT ![c] = closeSocket(@)]
    /\ sent' = sendError(conns[c], c, "auth_failed")
    /\ handed' = <<>>
    /\ UNCHANGED libVars
    /\ UNCHANGED <<matchVars, auxVars, nextPlayer, creating, timeouts,
                   broadcastInterval>>
    /\ UNCHANGED sideVars

\* prisma.user.findUnique resolves with no user for an auth message of c:
\* by then the socket may have been closed
AuthUnknownUser(c) ==
    /\ conns' = [conns EXCEPT ![c] = closeSocket(@)]
    /\ sent' = sendError(conns[c], c, "auth_failed")
    /\ handed' = <<>>
    /\ UNCHANGED libVars
    /\ UNCHANGED <<matchVars, auxVars, nextPlayer, creating, timeouts,
                   broadcastInterval>>
    /\ UNCHANGED sideVars

\* prisma.match.create rejects: the catch at the end of handleAuth
AuthCreateFailed(c) ==
    /\ c \in creating
    /\ creating' = creating \ {c}
    /\ conns' = [conns EXCEPT ![c] = closeSocket(@)]
    /\ sent' = sendError(conns[c], c, "auth_failed")
    /\ handed' = <<>>
    /\ UNCHANGED libVars
    /\ UNCHANGED <<matchVars, auxVars, nextPlayer, timeouts, broadcastInterval>>
    /\ UNCHANGED sideVars

\* the codes of the error that answers a message the handler does not
\* accept: JSON.parse throws (the catch of the handler), or safeParse fails
RejectCodes == {"server_error", "invalid_message"}

\* a message that does not parse or does not match ClientMessageSchema
InvalidMessage(c, code) ==
    /\ conns[c].readyState = OPEN
    /\ sent' = sendError(conns[c], c, code)
    /\ handed' = <<>>
    /\ UNCHANGED libVars
    /\ UNCHANGED <<matchVars, auxVars, connVars>>
    /\ UNCHANGED sideVars

NextAuth ==
    \/ \E c \in ConnIds : AuthQuick(c)
    \/ \E c \in ConnIds : AuthCreated(c)
    \/ \E c \in ConnIds : AuthCreateFailed(c)
    \/ \E c \in ConnIds, roomCode \in {MatchId, "zz"} : AuthFriends(c, roomCode)
    \/ \E c \in ConnIds : AuthInvalid(c)
    \/ \E c \in ConnIds : AuthRejected(c)
    \/ \E c \in ConnIds : AuthUnknownUser(c)
    \/ \E c \in ConnIds, code \in RejectCodes : InvalidMessage(c, code)
    \/ \E c \in ConnIds : Input(c, 0, BrakeIntent)
    \/ \E c \in ConnIds : Close(c)
    \/ StartTimeout

SpecAuth == Init /\ [][NextAuth]_vars

(***************************************************************************)
(* The heartbeat (specification SpecHeartbeat): the 30 s interval of the   *)
(* constructor probes every client, clients answer with pongs or do not,   *)
(* among quick-race joins and closes.  probes[c] counts the pings sent to  *)
(* c since its last pong.                                                  *)
(***************************************************************************)
\* socket.terminate(): the socket is destroyed and its 'close' event follows
terminate(ws) ==
    IF ws.readyState = CLOSED THEN ws ELSE [ws EXCEPT !.readyState = CLOSING]

\* a probe that leaves isAlive as it is
probeKeepsAlive(ws) ==
    IF ws.readyState = CLOSED THEN ws
    ELSE IF ~ws.isAlive THEN terminate(ws)
    ELSE ws

\* the heartbeat's callback for one client of wss.clients
probe(ws) ==
    IF ws.readyState = CLOSED THEN ws
    ELSE IF ~ws.isAlive THEN terminate(ws)
    ELSE [ws EXCEPT !.isAlive = FALSE]

\* the pings since the last pong, after the heartbeat has looked at ws
probed(ws, count) == IF ws.readyState = OPEN THEN count + 1 ELSE count

\* the heartbeat interval fires
Heartbeat ==
    /\ conns' = [c \in ConnIds |-> probe(conns[c])]
    /\ probes' = [c \in ConnIds |-> probed(conns[c], probes[c])]
    /\ sent' = Quiet
    /\ handed' = <<>>
    /\ UNCHANGED libVars
    /\ UNCHANGED <<matchVars, auxVars, nextPlayer, creating, timeouts,
                   broadcastInterval, db, owned, other>>

\* the 'pong' event of an open socket
Pong(c) ==
    /\ conns[c].readyState = OPEN
    /\ conns' = [conns EXCEPT ![c].isAlive = TRUE]
    /\ probes' = [probes EXCEPT ![c] = 0]
    /\ sent' = Quiet
    /\ handed' = <<>>
    /\ UNCHANGED libVars
    /\ UNCHANGED <<matchVars, auxVars, nextPlayer, creating, timeouts,
                   broadcastInterval, db, owned, other>>

NextHeartbeat ==
    \/ Heartbeat
    \/ \E c \in ConnIds : Pong(c)
    \/ \E c \in ConnIds : AuthQuick(c)
    \/ \E c \in ConnIds : AuthCreated(c)
    \/ \E c \in ConnIds : Close(c)

SpecHeartbeat == Init /\ [][NextHeartbeat]_vars

(***************************************************************************)
(* The timers of the server (specification SpecLoop): joins, the start     *)
(* timers they arm, the tick and the broadcast loop, without inputs.  In   *)
(* SpecLive every armed start timer fires and the armed intervals keep     *)
(* firing, as the timers of the event loop do.                             *)
(***************************************************************************)
\* MatchManager.removeMatch has been called: the model holds one match id,
\* so no match is created after it
Removed == ~registered /\ match.status = COMPLETE

NextLoop ==
    \/ \E c \in ConnIds : ~Removed /\ AuthQuick(c)
    \/ \E c \in ConnIds : AuthCreated(c)
    \/ \E c \in ConnIds : AuthFriends(c, MatchId)
    \/ StartTimeout
    \/ \E c \in ConnIds : Close(c)
    \/ Tick
    \/ Broadcast
    \/ RemoveMatch

SpecLoop == Init /\ [][NextLoop]_vars

SpecLive == Init /\ [][NextLoop]_vars /\ WF_vars(StartTimeout)

(***************************************************************************)
(* PRNG (apps/server/src/lib/prng.ts), mulberry32.  A 32-bit word is the   *)
(* record [hi, lo] of its two 16-bit halves; the state of a PRNG is such a *)
(* record too, but its hi is whatever the additions of next() make it.     *)
(***************************************************************************)
U16 == 2^16

\* the bitwise operators of JavaScript on the low n bits of two naturals
RECURSIVE xorBits(_, _, _)
xorBits(a, b, n) ==
    IF n = 0 THEN 0 ELSE ((a + b) % 2) + 2 * xorBits(a \div 2, b \div 2, n - 1)

RECURSIVE orBits(_, _, _)
orBits(a, b, n) ==
    IF n = 0 THEN 0
    ELSE (IF (a % 2) + (b % 2) >= 1 THEN 1 ELSE 0) + 2 * orBits(a \div 2, b \div 2, n - 1)

\* the operators on four bits, tabulated, and on sixteen bits
XorNibble == [a \in 0..15 |-> [b \in 0..15 |-> xorBits(a, b, 4)]]
OrNibble == [a \in 0..15 |-> [b \in 0..15 |-> orBits(a, b, 4)]]

xor16(a, b) ==
    XorNibble[a % 16][b % 16]
        + 16 * XorNibble[(a \div 16) % 16][(b \div 16) % 16]
        + 256 * XorNibble[(a \div 256) % 16][(b \div 256) % 16]
        + 4096 * XorNibble[(a \div 4096) % 16][(b \div 4096) % 16]

or16(a, b) ==
    OrNibble[a % 16][b % 16]
        + 16 * OrNibble[(a \div 16) % 16][(b \div 16) % 16]
        + 256 * OrNibble[(a \div 256) % 16][(b \div 256) % 16]
        + 4096 * OrNibble[(a \div 4096) % 16][(b \div 4096) % 16]

\* v ^ w
xor32(v, w) == [hi |-> xor16(v.hi, w.hi), lo |-> xor16(v.lo, w.lo)]

\* v | k, for a k below 2^16
or32(v, k) == [hi |-> v.hi, lo |-> or16(v.lo, k)]

\* v >>> k, for 0 < k < 16
shr(v, k) ==
    [hi |-> v.hi \div 2^k, lo |-> v.lo \div 2^k + (v.hi % 2^k) * 2^(16 - k)]

\* the low 16 bits of x * y
mulLow16(x, y) == ((((x \div 256) * y) % 256) * 256 + (x % 256) * y) % U16

\* the low 24 bits' worth of v.lo * w.lo below the product of the high bytes
mulLowPart(v, w) ==
    ((v.lo \div 256) * (w.lo % 256) + (v.lo % 256) * (w.lo \div 256)) * 256
        + (v.lo % 256) * (w.lo % 256)

imulOf(low, v, w) ==
    [hi |-> ((v.lo \div 256) * (w.lo \div 256) + low \div U16
                + mulLow16(v.hi, w.lo) + mulLow16(v.lo, w.hi)) % U16,
     lo |-> low % U16]

\* Math.imul(v, w): the low 32 bits of the product
imul(v, w) == imulOf(mulLowPart(v, w), v, w)

\* the 32-bit word of v + w, which the ^= of next() coerces the sum to
add32(v, w) ==
    [hi |-> (v.hi + w.hi + (v.lo + w.lo) \div U16) % U16, lo |-> (v.lo + w.lo) % U16]

\* ToInt32 of a state: what a bitwise operator sees of it
toWord(state) == [hi |-> state.hi % U16, lo |-> state.lo]

\* new PRNG(seed): seed >>> 0, for a seed given by its two halves
newPrng(seedHi, seedLo) == [hi |-> seedHi % U16, lo |-> seedLo % U16]

\* "this.state += 0x6d2b79f5": 0x6d2b is 27947 and 0x79f5 is 31221
advance(state) ==
    [hi |-> state.hi + 27947 + (state.lo + 31221) \div U16,
     lo |-> (state.lo + 31221) % U16]

\* t = Math.imul(t ^ (t >>> 15), t | 1)
mixFirst(t) == imul(xor32(t, shr(t, 15)), or32(t, 1))

\* t ^= t + Math.imul(t ^ (t >>> 7), t | 61)
mixSecond(t) == xor32(t, add32(t, imul(xor32(t, shr(t, 7)), or32(t, 61))))

\* (t ^ (t >>> 14)) >>> 0
mixLast(t) == xor32(t, shr(t, 14))

\* the word w of which next() returns w / 4294967296, for the state after
\* the addition
nextWord(state) == mixLast(mixSecond(mixFirst(toWord(state))))

\* Math.floor(next() * (max - min + 1)) + min, for the word of next()
nextIntOf(word, min, max) ==
    (word.hi * (max - min + 1) + (word.lo * (max - min + 1)) \div U16) \div U16 + min

\* next() * 2^bits + min, for the word of next(): the number
\* cell + frac / 2^(32 - bits), exactly (0 < bits < 16)
nextFloatOf(word, min, bits) ==
    [cell |-> min + word.hi \div 2^(16 - bits),
     frac |-> (word.hi % 2^(16 - bits)) * U16 + word.lo]

\* next() < 1/2, for the word of next()
chanceHalfOf(word) == word.hi < 32768

(***************************************************************************)
(* MapGenerator (apps/server/src/physics/map-generator.ts), on a smaller   *)
(* scale: a chunk is 2^ChunkBits wide, the clear path PATH_WIDTH, and the  *)
(* densities are DensityScale times MAP_CONFIG's.  A coordinate is the     *)
(* record [cell, frac] of the number cell + frac / 2^(32 - ChunkBits); an  *)
(* object id `${type}-${Math.floor(x)}-${Math.floor(y)}` is the tuple of   *)
(* its three parts.  The objects map is the sequence of its values in      *)
(* insertion order.                                                        *)
(***************************************************************************)
ChunkBits == 3
PATH_WIDTH == 2
DensityScale == 10
\* the chunk coordinates generateChunk is called with

CHUNK_SIZE == 2^ChunkBits
\* MAP_CONFIG's densities, per 1000 square units
TREE_DENSITY == 15
ROCK_DENSITY == 8
JUMP_DENSITY == 3
PICKUP_DENSITY == 5
\* the pickupTypes array of generateChunk
pickupTypes == <<"speed_boost", "invulnerable", "score_multiplier">>

\* Math.floor(chunkSize * chunkSize * density * factor / divisor)
countFor(density, divisor) ==
    (CHUNK_SIZE * CHUNK_SIZE * density * DensityScale) \div (1000 * divisor)

\* the obstacles generateChunk creates, in the order of its loops
kindsOf(count, type, radius) == [i \in 1..count |-> [type |-> type, radius |-> radius]]

ChunkPlan ==
    kindsOf(countFor(TREE_DENSITY, 1), "tree", 20)
        \o kindsOf(countFor(ROCK_DENSITY, 1), "rock", 15)
        \o kindsOf(countFor(ROCK_DENSITY, 2), "stump", 12)
        \o kindsOf(countFor(JUMP_DENSITY, 1), "jump", 25)
        \o kindsOf(countFor(PICKUP_DENSITY, 1), "pickup", 10)

\* the char codes of the decimal digits of an integer, as `${n}` writes it
RECURSIVE charCodes(_)
charCodes(n) ==
    IF n < 0 THEN <<45>> \o charCodes(-n)
    ELSE IF n < 10 THEN <<48 + n>>
    ELSE charCodes(n \div 10) \o <<48 + (n % 10)>>

\* hash = (hash << 5) - hash + charCode; hash = hash & hash
RECURSIVE hashChars(_, _)
hashChars(hash, chars) ==
    IF chars = <<>> THEN hash
    ELSE hashChars(add32(imul(hash, [hi |-> 0, lo |-> 31]), [hi |-> 0, lo |-> Head(chars)]),
                   Tail(chars))

\* Math.abs of the 32-bit integer a word is
abs32(word) ==
    IF word.hi < 32768 THEN word
    ELSE add32(xor32(word, [hi |-> 65535, lo |-> 65535]), [hi |-> 0, lo |-> 1])

\* MapGenerator.hashChunk: the hash of the string `${x},${y}`
hashChunk(x, y) ==
    abs32(hashChars([hi |-> 0, lo |-> 0], charCodes(x) \o <<44>> \o charCodes(y)))

\* new MapGenerator(seed)
newMapGenerator(seedHi, seedLo) ==
    [prng |-> newPrng(seedHi, seedLo), generatedChunks |-> {}, objects |-> <<>>]

\* MapGenerator.createObject
createObject(type, x, y, radius) ==
    [id |-> <<type, x.cell, y.cell>>,
     type |-> type,
     position |-> [x |-> x, y |-> y],
     radius |-> radius,
     active |-> TRUE]

\* one pass of a loop of generateChunk for an obstacle: x and y are drawn
\* from the states s1 and s2 that follow the state of chunkRng
obstacleAt(kind, baseX, baseY, s1, s2) ==
    [state |-> s2,
     object |-> createObject(kind.type,
                             nextFloatOf(nextWord(s1), baseX, ChunkBits),
                             nextFloatOf(nextWord(s2), baseY, ChunkBits),
                             kind.radius)]

\* one pass of the loop for pickups: the type is drawn first
pickupAt(kind, baseX, baseY, s0) ==
    obstacleAt([type |-> pickupTypes[nextIntOf(nextWord(s0), 0, Len(pickupTypes) - 1) + 1],
                radius |-> kind.radius],
               baseX, baseY, advance(s0), advance(advance(s0)))

createNext(kind, baseX, baseY, state) ==
    IF kind.type = "pickup"
    THEN pickupAt(kind, baseX, baseY, advance(state))
    ELSE obstacleAt(kind, baseX, baseY, advance(state), advance(advance(state)))

\* chunkObjects after the loops of generateChunk
RECURSIVE createAll(_, _, _, _, _)
createGrow(plan, baseX, baseY, made, acc) ==
    createAll(Tail(plan), baseX, baseY, made.state, Append(acc, made.object))

createAll(plan, baseX, baseY, state, acc) ==
    IF plan = <<>> THEN acc
    ELSE createGrow(plan, baseX, baseY, createNext(Head(plan), baseX, baseY, state), acc)

\* a filter that keeps every object
clearOfPathAll(x, centerX) == TRUE

\* Math.abs(obj.position.x - centerX) > pathWidth / 2, on twice the values
clearOfPath(x, centerX) ==
    IF x.cell >= centerX
    THEN \/ 2 * (x.cell - centerX) > PATH_WIDTH
         \/ 2 * (x.cell - centerX) = PATH_WIDTH /\ x.frac > 0
         \/ 2 * (x.cell - centerX) = PATH_WIDTH - 1
                /\ 2 * x.frac > 2^(32 - ChunkBits)
    ELSE \/ 2 * (centerX - x.cell) - 2 >= PATH_WIDTH
         \/ 2 * (centerX - x.cell) = PATH_WIDTH + 1
                /\ 2 * x.frac < 2^(32 - ChunkBits)

IsClearOf(centerX, obj) == clearOfPath(obj.position.x, centerX)

\* chunkObjects.filter(...)
filterPath(chunkObjects, centerX) ==
    SelectSeq(chunkObjects, LAMBDA obj : IsClearOf(centerX, obj))

\* this.objects.set(obj.id, obj): an id the map has keeps its place
RECURSIVE storeAll(_, _)
setObject(objects, obj) ==
    IF \E i \in 1..Len(objects) : objects[i].id = obj.id
    THEN [i \in 1..Len(objects) |-> IF objects[i].id = obj.id THEN obj ELSE objects[i]]
    ELSE Append(objects, obj)

storeAll(objects, filtered) ==
    IF filtered = <<>> THEN objects
    ELSE storeAll(setObject(objects, Head(filtered)), Tail(filtered))

\* MapGenerator.getObjectsInChunk
InChunk(chunkX, chunkY, obj) ==
    /\ obj.position.x.cell >= chunkX * CHUNK_SIZE
    /\ obj.position.x.cell < chunkX * CHUNK_SIZE + CHUNK_SIZE
    /\ obj.position.y.cell >= chunkY * CHUNK_SIZE
    /\ obj.position.y.cell < chunkY * CHUNK_SIZE + CHUNK_SIZE

getObjectsInChunk(objects, chunkX, chunkY) ==
    SelectSeq(objects, LAMBDA obj : InChunk(chunkX, chunkY, obj))

\* const chunkSeed = this.hashChunk(chunkX, chunkY): neither this.prng nor
\* the seed it was built from is read
chunkSeed(gen, chunkX, chunkY) == hashChunk(chunkX, chunkY)

\* the filtered objects of a chunk that has not been generated
freshChunk(gen, chunkX, chunkY) ==
    filterPath(createAll(ChunkPlan, chunkX * CHUNK_SIZE, chunkY * CHUNK_SIZE,
                         chunkSeed(gen, chunkX, chunkY), <<>>),
               chunkX * CHUNK_SIZE + CHUNK_SIZE \div 2)

generated(gen, chunkX, chunkY, filtered) ==
    [gen |-> [gen EXCEPT !.generatedChunks = @ \cup {<<chunkX, chunkY>>},
                         !.objects = storeAll(@, filtered)],
     returned |-> filtered]

\* MapGenerator.generateChunk: the generator after the call and the list
\* the call returns
generateChunk(gen, chunkX, chunkY) ==
    IF <<chunkX, chunkY>> \in gen.generatedChunks
    THEN [gen |-> gen, returned |-> getObjectsInChunk(gen.objects, chunkX, chunkY)]
    ELSE generated(gen, chunkX, chunkY, freshChunk(gen, chunkX, chunkY))

(***************************************************************************)
(* Two MapGenerator objects, their seeds equal or not, asked for chunks    *)
(* and for the objects near a point in any order (specification SpecMap).  *)
(***************************************************************************)
\* the match seeds and the chunk coordinates of the calls
Seeds == {1, 2}
ChunkCoords == {<<1, -1>>, <<1, 0>>}
\* the points and radii of the getObjectsNear calls
NearCalls == {[x |-> 12, y |-> 0, radius |-> 2], [x |-> 12, y |-> 3, radius |-> 2]}

\* every game variable at rest
GameIdle ==
    /\ match = newMatch(<<>>)
    /\ registered = FALSE
    /\ intervals = {}
    /\ handles = 0
    /\ joined = FALSE
    /\ allEvents = <<>>
    /\ calls = <<>>
    /\ sinceTick = {}
    /\ conns = [c \in ConnIds |-> NewConn]
    /\ nextPlayer = 0
    /\ creating = {}
    /\ timeouts = 0
    /\ broadcastInterval = NoTimer
    /\ sent = Quiet
    /\ handed = <<>>
    /\ db = NoHandoffs
    /\ owned = [c \in ConnIds |-> {}]
    /\ probes = [c \in ConnIds |-> 0]
    /\ other = newMatch(<<>>)

InitMap ==
    /\ GameIdle
    /\ rng = [g \in Gens |-> [hi |-> 0, lo |-> 0]]
    /\ drawn = [g \in Gens |-> <<>>]
    /\ args = NoCall
    /\ result = NoResult
    /\ ClientIdle
    /\ gens \in {[g \in Gens |-> newMapGenerator(0, IF g = "a" THEN 1 ELSE seed)] :
                     seed \in Seeds}
    /\ returned = [gen |-> "none"]
    /\ firsts = {}

\* the calls that were the first for their chunk, with the one more
firstsWith(log, g, chunk, list) ==
    IF \E f \in log : f.gen = g /\ f.chunk = chunk THEN log
    ELSE log \cup {[gen |-> g, chunk |-> chunk, list |-> list]}

GenerateDoes(g, chunk, r) ==
    /\ gens' = [gens EXCEPT ![g] = r.gen]
    /\ returned' = [gen |-> g, chunk |-> chunk, list |-> r.returned]
    /\ firsts' = firstsWith(firsts, g, chunk, r.returned)

\* a call of generateChunk
GenerateChunk(g, chunkX, chunkY) ==
    /\ GenerateDoes(g, <<chunkX, chunkY>>, generateChunk(gens[g], chunkX, chunkY))
    /\ UNCHANGED <<gameVars, prngVars, callVars, clientVars>>

\* the chunks of the loops "for cx ... for cy ..." of getObjectsNear
chunksIn(minChunkX, maxChunkX, minChunkY, maxChunkY) ==
    [i \in 1..((maxChunkX - minChunkX + 1) * (maxChunkY - minChunkY + 1)) |->
        << minChunkX + ((i - 1) \div (maxChunkY - minChunkY + 1)),
           minChunkY + ((i - 1) % (maxChunkY - minChunkY + 1)) >>]

\* Math.floor((x - radius) / chunkSize) and the like
chunksNear(x, y, radius) ==
    chunksIn((x - radius) \div CHUNK_SIZE, (x + radius) \div CHUNK_SIZE,
             (y - radius) \div CHUNK_SIZE, (y + radius) \div CHUNK_SIZE)

\* the generator, the latest call and the first calls after generateChunk
\* was called for each of the chunks in turn
RECURSIVE generateEach(_, _, _)
generateStep(acc, g, chunks, r) ==
    generateEach([gen |-> r.gen,
                  returned |-> [gen |-> g, chunk |-> Head(chunks), list |-> r.returned],
                  firsts |-> firstsWith(acc.firsts, g, Head(chunks), r.returned)],
                 g, Tail(chunks))

generateEach(acc, g, chunks) ==
    IF chunks = <<>> THEN acc
    ELSE generateStep(acc, g, chunks,
                      generateChunk(acc.gen, Head(chunks)[1], Head(chunks)[2]))

NearDoes(g, r) ==
    /\ gens' = [gens EXCEPT ![g] = r.gen]
    /\ returned' = r.returned
    /\ firsts' = r.firsts

\* a call of getObjectsNear: the chunks it generates (the list it returns
\* is left out)
GetObjectsNear(g, call) ==
    /\ NearDoes(g, generateEach([gen |-> gens[g], returned |-> returned, firsts |-> firsts],
                                g, chunksNear(call.x, call.y, call.radius)))
    /\ UNCHANGED <<gameVars, prngVars, callVars, clientVars>>

NextMap ==
    \/ \E g \in Gens, chunk \in ChunkCoords : GenerateChunk(g, chunk[1], chunk[2])
    \/ \E g \in Gens, call \in NearCalls : GetObjectsNear(g, call)

SpecMap == InitMap /\ [][NextMap]_vars

\* the PRNG objects and the MapGenerator objects of a specification that has
\* none
PrngIdle ==
    /\ rng = [g \in Gens |-> [hi |-> 0, lo |-> 0]]
    /\ drawn = [g \in Gens |-> <<>>]

MapIdle ==
    /\ gens = [g \in Gens |-> [prng |-> [hi |-> 0, lo |-> 0],
                               generatedChunks |-> {}, objects |-> <<>>]]
    /\ returned = [gen |-> "none"]
    /\ firsts = {}

(***************************************************************************)
(* Two PRNG objects, constructed from equal or from different seeds and    *)
(* called in any order (specification SpecPrng).  rng holds the state      *)
(* field of each, drawn the constructor call of each followed by the       *)
(* calls made on it: [op, in, out], in and out being sequences of          *)
(* integers (a word of next() as its two halves, a number of nextFloat as  *)
(* its cell and fraction, a boolean as 0 or 1).                            *)
(***************************************************************************)
\* how many calls are made on the two generators together
MaxDraws == 4

\* the seeds, as halves of a 32-bit word
PrngSeeds == {<<0, 12345>>, <<40503, 31161>>}
\* the array that is shuffled
Deck == <<1, 2, 3>>

\* the call returned out and left the generator in state
drew(state, out) == [state |-> state, out |-> out]

\* a word and a number as sequences of integers
wordOut(word) == <<word.hi, word.lo>>
floatOut(x) == <<x.cell, x.frac>>

\* PRNG.next
next(state) == drew(advance(state), wordOut(nextWord(advance(state))))

\* PRNG.nextInt
nextInt(state, min, max) ==
    drew(advance(state), <<nextIntOf(nextWord(advance(state)), min, max)>>)

\* PRNG.nextFloat(min, min + 2^bits)
nextFloat(state, min, bits) ==
    drew(advance(state), floatOut(nextFloatOf(nextWord(advance(state)), min, bits)))

\* PRNG.chance(0.5)
chance(state) ==
    drew(advance(state), <<IF chanceHalfOf(nextWord(advance(state))) THEN 1 ELSE 0>>)

\* [array[i], array[j]] = [array[j], array[i]], on indices from 1
swap(array, i, j) == [array EXCEPT ![i] = array[j], ![j] = array[i]]

\* PRNG.shuffle: the loop from index i (counted from 1) down
RECURSIVE shuffleFrom(_, _, _)
shuffleFrom(state, array, i) ==
    IF i <= 1 THEN drew(state, array)
    ELSE shuffleFrom(advance(state),
                     swap(array, i, nextIntOf(nextWord(advance(state)), 0, i - 1) + 1),
                     i - 1)

shuffle(state, array) == shuffleFrom(state, array, Len(array))

\* a write of this.state as if the field belonged to the class
assignedAll(rngs, g, state) == [h \in Gens |-> state]

\* a write of this.state: the field of the one object
assigned(rngs, g, state) == [rngs EXCEPT ![g] = state]

InitPrng ==
    /\ GameIdle
    /\ MapIdle
    /\ args = NoCall
    /\ result = NoResult
    /\ ClientIdle
    /\ \E seedOf \in {f \in [Gens -> PrngSeeds] : f["a"] = <<0, 12345>>} :
          /\ rng = [g \in Gens |-> newPrng(seedOf[g][1], seedOf[g][2])]
          /\ drawn = [g \in Gens |-> << [op |-> "new", in |-> seedOf[g], out |-> <<>>] >>]

\* the calls made so far, the constructor calls left out
DrawsMade == Len(drawn["a"]) + Len(drawn["b"]) - 2

\* a call on generator g that returned r.out and left the state r.state
Draws(g, op, in, r) ==
    /\ rng' = assigned(rng, g, r.state)
    /\ drawn' = [drawn EXCEPT ![g] = Append(@, [op |-> op, in |-> in, out |-> r.out])]
    /\ UNCHANGED <<gameVars, mapVars, callVars, clientVars>>

PrngNext(g) ==
    /\ DrawsMade < MaxDraws
    /\ Draws(g, "next", <<>>, next(rng[g]))

PrngNextInt(g, min, max) ==
    /\ DrawsMade < MaxDraws
    /\ Draws(g, "nextInt", <<min, max>>, nextInt(rng[g], min, max))

PrngNextFloat(g, min, bits) ==
    /\ DrawsMade < MaxDraws
    /\ Draws(g, "nextFloat", <<min, min + 2^bits>>, nextFloat(rng[g], min, bits))

PrngChance(g) ==
    /\ DrawsMade < MaxDraws
    /\ Draws(g, "chance", <<>>, chance(rng[g]))

PrngShuffle(g, array) ==
    /\ DrawsMade < MaxDraws
    /\ Draws(g, "shuffle", array, shuffle(rng[g], array))

NextPrng ==
    \/ \E g \in Gens : PrngNext(g)
    \/ \E g \in Gens : PrngNextInt(g, 1, 6)
    \/ \E g \in Gens : PrngNextFloat(g, 0, ChunkBits)
    \/ \E g \in Gens : PrngChance(g)
    \/ \E g \in Gens : PrngShuffle(g, Deck)

SpecPrng == InitPrng /\ [][NextPrng]_vars

(***************************************************************************)
(* PhysicsEngine.checkCollisions on its own (specification SpecCollide):   *)
(* a player at one of a few spots around the origin and one or two         *)
(* objects, of which those at the origin are touched, overlapped or missed *)
(* by the player.                                                          *)
(***************************************************************************)
\* PLAYER_RADIUS + obj.radius for a rock
RockReach == (PLAYER_RADIUS + 15) * Scale

\* where the player is: on the rim of a rock at the origin (straight above
\* it, beside it, and at three fifths and four fifths of the reach), one
\* unit inside the rim and one unit outside it, and between the rims of a
\* pickup and of a rock
PlayerSpots ==
    { Vec(0, RockReach), Vec(0, RockReach - 1), Vec(0, RockReach + 1),
      Vec(-RockReach, 0), Vec(1 - RockReach, 0),
      Vec((3 * RockReach) \div 5, (4 * RockReach) \div 5),
      Vec((3 * RockReach) \div 5 + 1, (4 * RockReach) \div 5),
      Vec(0, RockReach - 2 * Scale) }

Inactive(obj) == [obj EXCEPT !.active = FALSE]

ObjectChoices ==
    { Rock("rock-0-0", 0, 0), Inactive(Rock("rock-0-0", 0, 0)),
      Pickup("speed_boost-0-0", "speed_boost", 0, 0), Rock("rock-100-0", 100, 0) }

ObjectLists ==
    {<<o>> : o \in ObjectChoices} \cup {<<o1, o2>> : o1 \in ObjectChoices, o2 \in ObjectChoices}

\* the player of a call: a new player, put at a spot
PlayerAt(spot) == [newPlayer("p1").physics EXCEPT !.position = spot]

InitCollide ==
    /\ GameIdle
    /\ PrngIdle
    /\ MapIdle
    /\ ClientIdle
    /\ args \in {[fn |-> "checkCollisions", player |-> PlayerAt(spot), objects |-> objects] :
                    spot \in PlayerSpots, objects \in ObjectLists}
    /\ result = NoResult

\* { collided: true, object: obj } or { collided: false }, for the index
\* of the object or 0
collisionResult(objects, i) ==
    [done |-> TRUE, collided |-> i # 0, object |-> IF i = 0 THEN <<>> ELSE <<objects[i]>>]

\* a call of checkCollisions
CheckCollisions ==
    /\ args.fn = "checkCollisions"
    /\ ~result.done
    /\ result' = collisionResult(args.objects, checkCollisions(args.player, args.objects))
    /\ UNCHANGED <<gameVars, prngVars, mapVars, args, clientVars>>

NextCollide == CheckCollisions

SpecCollide == InitCollide /\ [][NextCollide]_vars

(***************************************************************************)
(* PhysicsEngine.validatePlayerState on its own (specification             *)
(* SpecValidate): an old state at the origin, a new state whose speed is   *)
(* at, just above or far above each limit and whose position is at, just   *)
(* beyond or within the distance limit, and a dt of 10 or 100 ms.          *)
(***************************************************************************)
ValidateSteps == {10, 100}

OldVelocities == {Vec(0, MIN_SPEED * Scale), Vec(300 * Scale, 400 * Scale)}

\* the new velocities for an old one of speed oldSpeed: as fast, at the
\* acceleration limit and one above it, at the speed limit (on the axis and
\* off it), one above it and far above it
NewVelocities(oldSpeed, dtMs) ==
    { Vec(0, oldSpeed), Vec(0, oldSpeed + maxSpeedChange(dtMs)),
      Vec(0, oldSpeed + maxSpeedChange(dtMs) + 1),
      Vec(0, oldSpeed - maxSpeedChange(dtMs) - 1),
      Vec(0, speedLimit), Vec((3 * speedLimit) \div 5, (4 * speedLimit) \div 5),
      Vec(0, speedLimit + 1), Vec(0, 2 * MAX_SPEED * Scale) }

\* the new positions: where the old one is, at the distance limit (on the
\* axis and off it) and one beyond it
NewPositions(dtMs) ==
    { Vec(0, 0), Vec(0, maxDist(dtMs)),
      Vec((3 * maxDist(dtMs)) \div 5, (4 * maxDist(dtMs)) \div 5),
      Vec(0, maxDist(dtMs) + 1), Vec(-1 - maxDist(dtMs), 0) }

\* a new player with the velocity, at the position
PlayerWith(velocity, position) ==
    [newPlayer("p1").physics EXCEPT !.velocity = velocity, !.position = position]

ValidateCalls ==
    UNION { { [fn |-> "validatePlayerState", dtMs |-> dtMs,
               oldState |-> PlayerWith(oldV, Vec(0, 0)),
               newState |-> PlayerWith(newV, newP)] :
                 newV \in NewVelocities(forwardSpeed(oldV), dtMs), newP \in NewPositions(dtMs) } :
            oldV \in OldVelocities, dtMs \in ValidateSteps }

InitValidate ==
    /\ GameIdle
    /\ PrngIdle
    /\ MapIdle
    /\ ClientIdle
    /\ args \in ValidateCalls
    /\ result = NoResult

\* what the caller has once the call has returned r
returnedTo(r) == [done |-> TRUE, valid |-> r.valid, reason |-> r.reason]

\* a call of validatePlayerState
ValidatePlayerState ==
    /\ args.fn = "validatePlayerState"
    /\ ~result.done
    /\ result' = returnedTo(validatePlayerState(args.oldState, args.newState, args.dtMs))
    /\ UNCHANGED <<gameVars, prngVars, mapVars, args, clientVars>>

NextValidate == ValidatePlayerState

SpecValidate == InitValidate /\ [][NextValidate]_vars

(***************************************************************************)
(* One updatePlayer call on a player in any of the states the engine can   *)
(* leave it in (specification SpecUpdate): on the ground, in the air early *)
(* late or at the end of the trick window, rising or about to come down,   *)
(* crashed; with no                                                        *)
(* invulnerability, one that has run out and one that lasts; with objects  *)
(* where the player is or none.                                            *)
(***************************************************************************)
\* the server time of the call
UpdateTime == 1000

\* straight down the slope at MIN_SPEED and at MAX_SPEED, and across it
\* with little of the velocity downhill, so that gravity turns it within a
\* tick
UpdateVelocities ==
    {Vec(0, MIN_SPEED * Scale), Vec(0, MAX_SPEED * Scale), Vec(48 * Scale, 10 * Scale)}

\* player.effectExpiry: no effect, an invulnerability that ends at the
\* time of the call and one that ends after it
UpdateEffects ==
    { << >>, [k \in {"invulnerable"} |-> UpdateTime],
      [k \in {"invulnerable"} |-> UpdateTime + 1] }

UpdatePlayers ==
    { [newPlayer("p1").physics EXCEPT !.state = state,
                                      !.velocity = velocity,
                                      !.airborneTime = airborneTime,
                                      !.effectExpiry = effectExpiry,
                                      !.lastJumpY = -5 * Scale] :
        state \in {SKIING, JUMPING, CRASHED},
        velocity \in UpdateVelocities,
        airborneTime \in {0, AIRBORNE_DURATION_MIN_MS - DtMs,
                          AIRBORNE_DURATION_MAX_MS - DtMs},
        effectExpiry \in UpdateEffects }

\* the objects of the call: none, a rock where the player is, a pickup
\* there, and both
UpdateObjects ==
    { <<>>,
      << Rock("rock-0-0", 0, 0) >>,
      << Pickup("speed_boost-0-0", "speed_boost", 0, 0) >>,
      << Pickup("invulnerable-0-0", "invulnerable", 0, 0), Rock("rock-0-0", 0, 0) >> }

InitUpdate ==
    /\ GameIdle
    /\ PrngIdle
    /\ MapIdle
    /\ ClientIdle
    /\ args \in [fn : {"updatePlayer"}, player : UpdatePlayers, intent : Intents,
                  dtMs : Steps, objects : UpdateObjects, serverTime : {UpdateTime}]
    /\ result = NoResult

\* the player, the events and the consumed pickup the call has left
updated(r) == [done |-> TRUE, player |-> r.player, events |-> r.events, hit |-> r.hit]

\* a call of updatePlayer
UpdatePlayer ==
    /\ args.fn = "updatePlayer"
    /\ ~result.done
    /\ result' = updated(updatePlayer(args.player, args.intent, args.dtMs, args.objects,
                                      args.serverTime))
    /\ UNCHANGED <<gameVars, prngVars, mapVars, args, clientVars>>

NextUpdate == UpdatePlayer

SpecUpdate == InitUpdate /\ [][NextUpdate]_vars

(***************************************************************************)
(* The client's GameEngine in multiplayer play (specification SpecClient): *)
(* the welcome, the frames of the game loop and the snapshots of the       *)
(* server, which acknowledge any of the sequence numbers sent so far, none *)
(* below that of the snapshot before.                                      *)
(***************************************************************************)
\* how many frames the game loop runs
MaxFrames == 5
\* the length of the prediction history ("> 60" in update), scaled
PREDICTION_HISTORY == 2

\* the player lists of the snapshots the client is sent
SnapshotPlayers == {{"p1"}, {"p1", "p2"}}

\* the filter of handleSnapshot with "state.seq >= snapshot.you.ackSeq"
reconcileFrom(predictedStates, ackSeq) ==
    SelectSeq(predictedStates, LAMBDA state : state.seq >= ackSeq)

\* this.predictedStates.filter((state) => state.seq > snapshot.you.ackSeq)
reconcile(predictedStates, ackSeq) ==
    SelectSeq(predictedStates, LAMBDA state : state.seq > ackSeq)

\* GameEngine.handleSnapshot, for a snapshot [players, ackSeq]
handleSnapshot(engine, players, ackSeq) ==
    IF engine.myPlayerId # None /\ engine.myPlayerId \in players
    THEN [engine EXCEPT !.players = players,
                        !.predictedStates = reconcile(@, ackSeq)]
    ELSE [engine EXCEPT !.players = players]

\* "Limit prediction history"
limited(predictedStates) ==
    IF Len(predictedStates) > PREDICTION_HISTORY THEN Tail(predictedStates)
    ELSE predictedStates

\* GameEngine.update in multiplayer mode, for an engine that has a playerId
update(engine) ==
    IF engine.myPlayerId \in engine.players
    THEN [engine EXCEPT !.inputSeq = @ + 1,
                        !.currentTick = @ + 1,
                        !.predictedStates =
                            limited(Append(@, [tick |-> engine.currentTick + 1,
                                               seq |-> engine.inputSeq + 1]))]
    ELSE [engine EXCEPT !.inputSeq = @ + 1, !.currentTick = @ + 1]

InitClient ==
    /\ GameIdle
    /\ PrngIdle
    /\ MapIdle
    /\ args = NoCall
    /\ result = NoResult
    /\ ClientIdle

\* onWelcome: the client learns its playerId and starts the game loop
Welcome ==
    /\ client.myPlayerId = None
    /\ client' = [client EXCEPT !.myPlayerId = "p1"]
    /\ UNCHANGED <<gameVars, prngVars, mapVars, callVars, wsClient, snapshot>>

\* a frame of the game loop: update(dt)
Frame ==
    /\ client.myPlayerId # None
    /\ client.inputSeq < MaxFrames
    /\ client' = update(client)
    /\ UNCHANGED <<gameVars, prngVars, mapVars, callVars, wsClient, snapshot>>

\* onSnapshot: handleSnapshot(msg)
Snapshot(players, ackSeq) ==
    /\ client.myPlayerId # None
    /\ ackSeq >= snapshot.ackSeq
    /\ ackSeq <= client.inputSeq
    /\ client' = handleSnapshot(client, players, ackSeq)
    /\ snapshot' = [players |-> players, ackSeq |-> ackSeq,
                    dropped |-> Len(client.predictedStates)
                                    - Len(handleSnapshot(client, players, ackSeq).predictedStates)]
    /\ UNCHANGED <<gameVars, prngVars, mapVars, callVars, wsClient>>

NextClient ==
    \/ Welcome
    \/ Frame
    \/ \E players \in SnapshotPlayers, ackSeq \in 0..MaxFrames : Snapshot(players, ackSeq)

SpecClient == InitClient /\ [][NextClient]_vars

(***************************************************************************)
(* A player of a match that keeps ticking, with no object near             *)
(* (specification SpecJump): each step is one Match.tick, which counts the *)
(* tick and calls updatePlayer.  The player starts straight down the       *)
(* slope, slow or fast, or across it; it brakes, does not steer, and       *)
(* presses jump or not.  args holds the tick counter modulo 2, result the  *)
(* player as the latest call left it, without its position, distance,      *)
(* score and lastJumpY, which updatePlayer does not read when no object is *)
(* near, and with an airborne time above AIRBORNE_DURATION_MAX followed as *)
(* one tick above it (updatePlayer compares it with the two durations      *)
(* only).                                                                  *)
(***************************************************************************)
\* what the specification follows of a player
followed(player) ==
    [player EXCEPT !.position = Vec(0, 0),
                   !.distance = 0,
                   !.score = 0,
                   !.lastJumpY = 0,
                   !.airborneTime = Min(@, AIRBORNE_DURATION_MAX_MS + DtMs)]

\* what a call that returned r has left
followedOf(r) == [done |-> TRUE, player |-> followed(r.player), events |-> r.events]

InitJump ==
    /\ GameIdle
    /\ PrngIdle
    /\ MapIdle
    /\ ClientIdle
    /\ args = [fn |-> "tick", currentTick |-> 0]
    /\ result \in [done : {TRUE},
                    player : {[newPlayer("p1").physics EXCEPT !.velocity = velocity] :
                                  velocity \in UpdateVelocities},
                    events : {<<>>}]

\* this.currentTick++, modulo 2
TickCounts == args' = [args EXCEPT !.currentTick = 1 - @]

\* Match.tick for the player, with the intent of its latest input
TickPlayer(intent) ==
    /\ args.fn = "tick"
    /\ TickCounts
    /\ result' = followedOf(updatePlayer(result.player, intent, DtMs, <<>>, 0))
    /\ UNCHANGED <<gameVars, prngVars, mapVars, clientVars>>

\* the intents of the player
JumpIntents == [steer : {0}, brake : {1}, tuck : {0}, jump : {0, 1}]

NextJump == \E intent \in JumpIntents : TickPlayer(intent)

\* the interval timer of Match.start keeps firing
SpecJump == InitJump /\ [][NextJump]_vars /\ WF_args(TickCounts)

(***************************************************************************)
(* The pickups and obstacles of a running match (specification             *)
(* SpecPickup): two players start side by side on the slope of World, each *)
(* may jump or brake, and the tick advances p1 before p2.                  *)
(***************************************************************************)
InitPickup ==
    /\ match = addPlayer(addPlayer(newMatch(World), "p1"), "p2")
    /\ registered = TRUE
    /\ intervals = {}
    /\ handles = 0
    /\ joined = TRUE
    /\ allEvents = <<>>
    /\ calls = <<>>
    /\ sinceTick = {}
    /\ conns = [c \in ConnIds |-> NewConn]
    /\ nextPlayer = 0
    /\ creating = {}
    /\ timeouts = 0
    /\ broadcastInterval = NoTimer
    /\ sent = Quiet
    /\ handed = <<>>
    /\ db = NoHandoffs
    /\ owned = [c \in ConnIds |-> {}]
    /\ probes = [c \in ConnIds |-> 0]
    /\ other = newMatch(<<>>)
    /\ LibIdle

NextPickup ==
    \/ \E p \in {"p1", "p2"}, intent \in {JumpIntent, BrakeIntent} : QueueInput(p, 0, intent)
    \/ Start
    \/ Tick

SpecPickup == InitPickup /\ [][NextPickup]_vars

(***************************************************************************)
(* Quick matches (specification SpecQuick): auth messages with mode        *)
(* QUICK_RACE and a guest token on two connections of a server that has no *)
(* match yet.  handleAuth runs without interruption up to its await of     *)
(* prisma.match.create, and from there to its end once the promise has     *)
(* resolved; in between the handlers of other messages run.                *)
(* MatchManager.matches holds up to two matches here, match and then       *)
(* other, in the order of their insertion; nothing starts or removes them. *)
(***************************************************************************)
\* the id of the second match
OtherId == "m2"

\* MatchManager.matches holds the second match
otherRegistered(o) == o # newMatch(<<>>)

\* MatchManager.findAvailableMatch: the id of the first match of the map
\* that is in LOBBY with a free place, or None
findAvailableMatch(m, isRegistered, o) ==
    IF available(m, isRegistered) THEN MatchId
    ELSE IF available(o, otherRegistered(o)) THEN OtherId
    ELSE None

\* handleAuth from "Add player to match" on, for the second match m, which
\* is in LOBBY
JoinOther(c, ws, m) ==
    LET ok == addPlayerResult(m, ws.playerId)
        after == addPlayer(m, ws.playerId)
    IN  /\ other' = after
        /\ joined' = ok
        /\ IF ~ok
           THEN /\ conns' = [conns EXCEPT ![c] = closeSocket(ws)]
                /\ sent' = sendError(ws, c, "match_full")
                /\ UNCHANGED <<timeouts, owned>>
           ELSE /\ conns' = [conns EXCEPT ![c] = [ws EXCEPT !.matchId = OtherId]]
                /\ sent' = Quiet
                /\ owned' = [owned EXCEPT ![c] = @ \cup {ws.playerId}]
                /\ timeouts' = timeouts + 1
        /\ UNCHANGED <<match, registered, intervals, handles, broadcastInterval>>

InitQuick == Init

\* an auth message with mode QUICK_RACE on c: to the end of handleAuth when
\* findAvailableMatch returns a match, else up to the await of
\* prisma.match.create
QuickAuth(c) ==
    /\ conns[c].readyState = OPEN
    /\ c \notin creating
    /\ nextPlayer < Len(PlayerSeq)
    /\ nextPlayer' = nextPlayer + 1
    /\ LET ws == identified(conns[c], nextPlayer)
           found == findAvailableMatch(match, registered, other)
       IN  IF found = MatchId
           THEN /\ Join(c, ws, "race", match)
                /\ UNCHANGED <<creating, other>>
           ELSE IF found = OtherId
           THEN /\ JoinOther(c, ws, other)
                /\ UNCHANGED creating
           ELSE /\ creating' = creating \cup {c}
                /\ conns' = [conns EXCEPT ![c] = ws]
                /\ sent' = Quiet
                /\ UNCHANGED <<match, registered, intervals, handles, joined, timeouts,
                               broadcastInterval, owned, other>>
    /\ UNCHANGED <<allEvents, calls, sinceTick>>
    /\ handed' = <<>>
    /\ UNCHANGED libVars
    /\ UNCHANGED <<db, probes>>

\* prisma.match.create resolves for c: createMatch, which inserts the new
\* match into the map, and handleAuth runs to its end
QuickCreated(c) ==
    /\ c \in creating
    /\ creating' = creating \ {c}
    /\ IF ~registered
       THEN /\ Join(c, conns[c], "race", newMatch(World))
            /\ UNCHANGED other
       ELSE /\ ~otherRegistered(other)
            /\ JoinOther(c, conns[c], newMatch(World))
    /\ UNCHANGED <<nextPlayer, allEvents, calls, sinceTick>>
    /\ handed' = <<>>
    /\ UNCHANGED libVars
    /\ UNCHANGED <<db, probes>>

NextQuick ==
    \/ \E c \in ConnIds : QuickAuth(c)
    \/ \E c \in ConnIds : QuickCreated(c)
    \/ \E c \in ConnIds : AuthRejected(c)
    \/ \E c \in ConnIds, code \in RejectCodes : InvalidMessage(c, code)

SpecQuick == InitQuick /\ [][NextQuick]_vars

(***************************************************************************)
(* The client's WebSocketClient (apps/client/src/game/WebSocketClient.ts,  *)
(* specification SpecSocket).  The application calls connect() and          *)
(* disconnect(); the browser delivers the open, error and close events of  *)
(* every socket the client has constructed, whether this.ws still refers   *)
(* to it or not, since connect() and disconnect() leave the handlers of    *)
(* the socket they close in place; a pending timeout of attemptReconnect   *)
(* fires at some time.  The client constructs at most MaxSockets sockets.  *)
(***************************************************************************)
maxReconnectAttempts == 5
MaxSockets == 3

\* WebSocket.close(): a socket that is connecting or open starts closing
closed(sockets, i) ==
    IF i = 0 THEN sockets
    ELSE [sockets EXCEPT ![i] = IF @ \in {"connecting", "open"} THEN "closing" ELSE @]

\* connect(token, mode, roomCode): closes the socket this.ws refers to and
\* constructs the next one
connect(ws) ==
    [ws EXCEPT !.status = "connecting",
               !.sockets = Append(closed(@, ws.ws), "connecting"),
               !.ws = Len(ws.sockets) + 1]

\* disconnect()
disconnect(ws) ==
    [ws EXCEPT !.sockets = closed(@, ws.ws),
               !.ws = 0,
               !.status = "disconnected"]

\* attemptReconnect(token, mode, roomCode)
attemptReconnect(ws) ==
    IF ws.reconnectAttempts >= maxReconnectAttempts THEN ws
    ELSE [ws EXCEPT !.reconnectAttempts = @ + 1, !.timers = @ + 1]

\* the onopen handler of a socket
onopen(ws) == [ws EXCEPT !.status = "connected", !.reconnectAttempts = 0]

\* the onerror handler of a socket
onerror(ws) == [ws EXCEPT !.status = "error"]

\* the onclose handler of a socket
onclose(ws) == attemptReconnect([ws EXCEPT !.status = "disconnected"])

InitSocket ==
    /\ GameIdle
    /\ LibIdle

\* the application calls connect()
Connect ==
    /\ Len(wsClient.sockets) < MaxSockets
    /\ wsClient' = [connect(wsClient) EXCEPT !.requested = FALSE]
    /\ UNCHANGED <<gameVars, prngVars, mapVars, callVars, client, snapshot>>

\* the application calls disconnect(), as GameEngine.stop does
Disconnect ==
    /\ wsClient' = [disconnect(wsClient) EXCEPT !.requested = TRUE]
    /\ UNCHANGED <<gameVars, prngVars, mapVars, callVars, client, snapshot>>

\* socket i opens
SocketOpens(i) ==
    /\ i <= Len(wsClient.sockets)
    /\ wsClient.sockets[i] = "connecting"
    /\ wsClient' = onopen([wsClient EXCEPT !.sockets[i] = "open"])
    /\ UNCHANGED <<gameVars, prngVars, mapVars, callVars, client, snapshot>>

\* socket i fails: its error event, which its close event follows
SocketFails(i) ==
    /\ i <= Len(wsClient.sockets)
    /\ wsClient.sockets[i] \in {"connecting", "open"}
    /\ wsClient' = onerror([wsClient EXCEPT !.sockets[i] = "closing"])
    /\ UNCHANGED <<gameVars, prngVars, mapVars, callVars, client, snapshot>>

\* the close event of socket i: the server or the network has closed it,
\* or the closing that close() or a failure started has finished
SocketCloses(i) ==
    /\ i <= Len(wsClient.sockets)
    /\ wsClient.sockets[i] # "closed"
    /\ wsClient' = onclose([wsClient EXCEPT !.sockets[i] = "closed"])
    /\ UNCHANGED <<gameVars, prngVars, mapVars, callVars, client, snapshot>>

\* a timeout of attemptReconnect fires
Reconnect ==
    /\ wsClient.timers > 0
    /\ Len(wsClient.sockets) < MaxSockets
    /\ wsClient' = connect([wsClient EXCEPT !.timers = @ - 1])
    /\ UNCHANGED <<gameVars, prngVars, mapVars, callVars, client, snapshot>>

NextSocket ==
    \/ Connect
    \/ Disconnect
    \/ \E i \in 1..MaxSockets : SocketOpens(i)
    \/ \E i \in 1..MaxSockets : SocketFails(i)
    \/ \E i \in 1..MaxSockets : SocketCloses(i)
    \/ Reconnect

SpecSocket == InitSocket /\ [][NextSocket]_vars

(***************************************************************************)
(* Properties of the match (specification SpecMatch).                      *)
(***************************************************************************)
\* the armed timers that run Match.tick
TickTimers == {t \in intervals : t.loop = "tick"}

\* the roster is non-empty and every connected player is CRASHED or FINISHED
AllTerminal(m) ==
    /\ Len(m.players) > 0
    /\ \A i \in 1..Len(m.players) :
           m.players[i].connected =>
               m.players[i].physics.state \in {CRASHED, FINISHED}

\* C1: the status of a match changes only from LOBBY to ACTIVE and from
\* ACTIVE to COMPLETE, whichever of start, end, tick, addPlayer,
\* removePlayer, queueInput and removeMatch is called; in particular a
\* COMPLETE match stays COMPLETE
C1_StatusLifecycle ==
    [][match'.status # match.status =>
          \/ match.status = LOBBY /\ match'.status = ACTIVE
          \/ match.status = ACTIVE /\ match'.status = COMPLETE]_vars

\* C2: a tick leaves the match COMPLETE, and no tick timer armed, exactly
\* when the roster is non-empty and every connected player is CRASHED or
\* FINISHED after it; and a removePlayer call leaves the status as it is
C2_TickEndsIffAllTerminal ==
    [][/\ Tick => /\ match'.status = COMPLETE <=> AllTerminal(match')
                  /\ {t \in intervals' : t.loop = "tick"} = {}
                         <=> AllTerminal(match')
       /\ (\E p \in PlayerIds : RemovePlayer(p)) =>
              /\ match'.status = match.status
              /\ intervals' = intervals]_vars

\* a tick has ended a match in which one player had left while SKIING and
\* the other crashed
C2_Witness ==
    /\ match.status = COMPLETE
    /\ match.currentTick = 2
    /\ \E k \in 1..Len(allEvents) : allEvents[k].type = "collision"
    /\ \E i \in 1..Len(match.players) :
           ~match.players[i].connected /\ match.players[i].physics.state = SKIING
    /\ \E i \in 1..Len(match.players) :
           match.players[i].connected /\ match.players[i].physics.state = CRASHED

\* the MatchPlayer of a player that has just joined
IsFreshSlot(slot, playerId) ==
    /\ slot.id = playerId
    /\ slot.physics.position = Vec(0, 0)
    /\ slot.physics.velocity = Vec(0, MIN_SPEED * Scale)
    /\ slot.physics.state = SKIING
    /\ slot.physics.score = 0
    /\ slot.inputQueue = <<>>
    /\ slot.lastAckedSeq = -1
    /\ slot.connected = TRUE

\* C9: addPlayer returns false and leaves the roster as it is when the
\* roster holds maxPlayers slots or holds the id; otherwise it returns true
\* and appends one fresh slot; and the roster never holds more than
\* maxPlayers slots
C9_AddPlayer ==
    /\ [](Len(match.players) <= maxPlayers)
    /\ [][\A p \in PlayerIds :
              AddPlayer(p) =>
                  IF Len(match.players) >= maxPlayers \/ hasPlayer(match, p)
                  THEN joined' = FALSE /\ match'.players = match.players
                  ELSE /\ joined' = TRUE
                       /\ Len(match'.players) = Len(match.players) + 1
                       /\ SubSeq(match'.players, 1, Len(match.players))
                              = match.players
                       /\ IsFreshSlot(match'.players[Len(match'.players)], p)]_vars

\* a full roster has turned a player away
C9_Witness ==
    /\ Len(match.players) = maxPlayers
    /\ joined = FALSE

\* C10: start changes nothing of a match that is ACTIVE or COMPLETE, and a
\* match has an armed tick timer exactly when it is ACTIVE, the one its
\* tickInterval holds, and never two
C10_StartOnlyFromLobby ==
    /\ match.status # LOBBY =>
           /\ start(match, handles + 1) = match
           /\ startArms(match, handles + 1) = {}
    /\ Cardinality(TickTimers) <= 1
    /\ TickTimers # {} <=> match.status = ACTIVE
    /\ \A t \in TickTimers : t.handle = match.tickInterval
    /\ match.tickInterval # NoTimer <=> match.status = ACTIVE

\* a started match whose timer has fired
C10_Witness ==
    /\ match.status = ACTIVE
    /\ match.currentTick > 0
    /\ TickTimers # {}

(***************************************************************************)
(* Properties of the input queues (specification SpecQueue).               *)
(***************************************************************************)
\* C3: a tick passes updatePlayer, for each connected player with a
\* non-empty queue, the intent of the entry enqueued last, sets the player's
\* lastAckedSeq to that entry's seq and leaves no entry with a lower seq in
\* the queue; for a connected player with an empty queue it passes the
\* neutral intent and leaves lastAckedSeq as it is
C3_LatestInputWins ==
    [][Tick =>
          \A i \in 1..Len(match.players) :
              LET old == match.players[i]
                  new == match'.players[i]
                  mine == {k \in 1..Len(calls') : calls'[k].playerId = old.id}
              IN  old.connected =>
                      /\ Cardinality(mine) = 1
                      /\ IF old.inputQueue # <<>>
                         THEN /\ \A k \in mine :
                                     calls'[k].intent
                                         = old.inputQueue[Len(old.inputQueue)].intent
                              /\ new.lastAckedSeq
                                     = old.inputQueue[Len(old.inputQueue)].seq
                              /\ \A j \in 1..Len(new.inputQueue) :
                                     new.inputQueue[j].seq >= new.lastAckedSeq
                         ELSE /\ \A k \in mine : calls'[k].intent = NeutralIntent
                              /\ new.lastAckedSeq = old.lastAckedSeq]_vars

\* a tick has collapsed a queue of two entries whose last one, with the
\* lower seq, held another intent than the first, while the other player had
\* sent nothing
C3_Witness ==
    /\ match.currentTick > 0
    /\ sinceTick = {}
    /\ match.players[1].lastAckedSeq = 1
    /\ Len(match.players[1].inputQueue) = 2
    /\ match.players[1].inputQueue[1].intent = BrakeIntent
    /\ calls[1] = [playerId |-> "p1", intent |-> BrakeTuckIntent]
    /\ match.players[2].lastAckedSeq = -1
    /\ \E k \in 1..Len(calls) :
           calls[k] = [playerId |-> "p2", intent |-> NeutralIntent]

\* C4: a tick simulates a player that has sent no input since the tick
\* before with the neutral intent, not again with the intent of an input
\* an earlier tick has applied
C4_InputEphemeral ==
    [][Tick =>
          \A k \in 1..Len(calls') :
              calls'[k].playerId \notin sinceTick =>
                  calls'[k].intent = NeutralIntent]_vars

\* C8: no input queue is ever longer than INPUT_BUFFER_SIZE; queueInput for
\* an id the roster lacks changes nothing; queueInput for a player appends
\* the entry to its queue, first dropping the oldest entry of a full queue,
\* and leaves the other players as they are
C8_QueueBoundedFifo ==
    /\ [](\A i \in 1..Len(match.players) :
              Len(match.players[i].inputQueue) <= INPUT_BUFFER_SIZE)
    /\ [](\A p \in PlayerIds, seq \in Seqs, intent \in QueueIntents :
              ~hasPlayer(match, p) => queueInput(match, p, seq, intent) = match)
    /\ [][\A p \in PlayerIds, seq \in Seqs, intent \in QueueIntents :
              QueueInput(p, seq, intent) /\ hasPlayer(match, p) =>
                  /\ Len(match'.players) = Len(match.players)
                  /\ \A i \in 1..Len(match.players) :
                         LET queue == match.players[i].inputQueue
                             entry == [seq |-> seq, intent |-> intent]
                         IN  IF match.players[i].id # p
                             THEN match'.players[i] = match.players[i]
                             ELSE match'.players[i].inputQueue =
                                      IF Len(queue) < INPUT_BUFFER_SIZE
                                      THEN Append(queue, entry)
                                      ELSE Append(Tail(queue), entry)]_vars

\* a full queue that no tick has collapsed, holding the inputs that arrived
\* last in the order of their arrival
C8_Witness ==
    /\ match.currentTick = 0
    /\ Len(match.players[1].inputQueue) = INPUT_BUFFER_SIZE
    /\ match.players[1].inputQueue[1].seq = MaxSeq
    /\ match.players[1].inputQueue[INPUT_BUFFER_SIZE].seq = 0
    /\ sinceTick = {"p1"}

(***************************************************************************)
(* Properties of the snapshots (specification Spec).                       *)
(***************************************************************************)
\* C5: a snapshot goes only to an open socket attached to the match whose
\* player the roster holds; its you.ackSeq is the lastAckedSeq of that
\* player; and its players mark one entry isYou, that player's
C5_SnapshotIsPersonal ==
    \A c \in ConnIds :
        sent[c].type = "snapshot" =>
            /\ conns[c].readyState = OPEN
            /\ conns[c].matchId = MatchId
            /\ \E i \in 1..Len(match.players) :
                   /\ match.players[i].id = conns[c].playerId
                   /\ sent[c].you.ackSeq = match.players[i].lastAckedSeq
            /\ Cardinality({i \in 1..Len(sent[c].players) :
                               sent[c].players[i].isYou}) = 1
            /\ \A i \in 1..Len(sent[c].players) :
                   sent[c].players[i].isYou
                       <=> sent[c].players[i].id = conns[c].playerId

\* one broadcast has sent two sockets snapshots that acknowledge different
\* sequence numbers
C5_Witness ==
    /\ sent["c1"].type = "snapshot"
    /\ sent["c2"].type = "snapshot"
    /\ sent["c1"].you.ackSeq # sent["c2"].you.ackSeq

\* the events a snapshot carries
SnapshotEvents(s) == IF "events" \in DOMAIN s THEN s.events ELSE <<>>

\* C6: the snapshot sent after a tick carries, in its events, every event
\* the engine emitted in that tick
C6_EventsBroadcast ==
    \A c \in ConnIds :
        sent[c].type = "snapshot" /\ sent[c].tick = match.currentTick =>
            \A k \in 1..Len(allEvents) :
                \E j \in 1..Len(SnapshotEvents(sent[c])) :
                    SnapshotEvents(sent[c])[j] = allEvents[k]

(***************************************************************************)
(* Properties of the engine (specification SpecPhysics).                   *)
(***************************************************************************)
\* C7: updatePlayer on a CRASHED player, whatever the intent, the step
\* length and the nearby objects, leaves the player's state, position,
\* velocity, score and distance as they are and emits no event
C7_CrashedIsInert ==
    [][match.players[1].physics.state = CRASHED =>
          /\ match'.players[1].physics.state = CRASHED
          /\ match'.players[1].physics.position = match.players[1].physics.position
          /\ match'.players[1].physics.velocity = match.players[1].physics.velocity
          /\ match'.players[1].physics.score = match.players[1].physics.score
          /\ match'.players[1].physics.distance = match.players[1].physics.distance
          /\ allEvents' = <<>>]_vars

\* the latest update, which emitted nothing, was of a player that an
\* earlier one had crashed
C7_Witness ==
    /\ match.players[1].physics.state = CRASHED
    /\ match.currentTick = MaxUpdates
    /\ allEvents = <<>>

\* C11: end() is idempotent.  The first call on a match that is not COMPLETE
\* leaves it COMPLETE with no tick timer and hands the final results to
\* persistence once; on a COMPLETE match, whether the first call's hand-off
\* is still pending or has settled, end() changes nothing, clears nothing
\* and hands nothing over, so a match is handed over at most once.
C11_FirstEndCompletes ==
    match.status # COMPLETE =>
        /\ end(match).status = COMPLETE
        /\ end(match).tickInterval = NoTimer
        /\ clearIntervals(intervals, endClears(match)) \cap TickTimers = {}
        /\ Len(endHandsOff(match)) = 1
        /\ persistBegin(db, endHandsOff(match)).handoffs = db.handoffs + 1

C11_LaterEndIsNoOp ==
    match.status = COMPLETE =>
        /\ end(match) = match
        /\ endClears(match) = {}
        /\ endHandsOff(match) = <<>>
        /\ persistBegin(db, endHandsOff(match)) = db

C11_EndIdempotent ==
    /\ C11_FirstEndCompletes
    /\ C11_LaterEndIsNoOp
    /\ db.handoffs <= 1
    /\ (db.handoffs = 1) <=> (match.status = COMPLETE)

\* a COMPLETE match whose hand-off is still pending, after the step that
\* ended it
C11_Witness ==
    /\ match.status = COMPLETE
    /\ db.handoffs = 1
    /\ db.pending = 1
    /\ handed = <<>>

\* C12: the final results of a match hold every player ever added, connected
\* or not, exactly once, their placements are exactly 1..n in order, and the
\* scores do not increase with the placement; a match of one player yields
\* one entry of placement 1.  What end() hands to persistence is that list.
getPlayerOf(players, playerId) ==
    players[CHOOSE i \in 1..Len(players) : players[i].id = playerId]

ResultsRankRoster(results, players) ==
    /\ Len(results) = Len(players)
    /\ \A i \in 1..Len(players) :
          Cardinality({j \in 1..Len(results) : results[j].playerId = players[i].id}) = 1
    /\ \A j \in 1..Len(results) :
          /\ results[j].placement = j
          /\ results[j].score = getPlayerOf(players, results[j].playerId).physics.score
    /\ \A j \in 1..(Len(results) - 1) : results[j].score >= results[j + 1].score
    /\ Len(players) = 1 => results[1].placement = 1

C12_ResultsRankEveryPlayer ==
    /\ ResultsRankRoster(finalResults(match), match.players)
    /\ handed # <<>> => handed = << finalResults(match) >>

\* a hand-off of two results with different scores whose lower-placed
\* player had disconnected
C12_Witness ==
    /\ handed # <<>>
    /\ Len(handed[1]) = 2
    /\ handed[1][1].score > handed[1][2].score
    /\ \E i \in 1..2 : ~match.players[i].connected
    /\ match.players[1].id = handed[1][2].playerId

\* C13: removePlayer(p) only marks p's slot disconnected: the slot stays in
\* the roster with its physics state, score, input queue and lastAckedSeq,
\* every other slot and field of the match is unchanged, and a playerId the
\* roster does not hold changes nothing; every slot, disconnected or not, is
\* in getState() and in the final results; and a tick changes nothing of a
\* disconnected slot (physics state, input queue, lastAckedSeq).
RemoveOnlyMarks(m, after, playerId) ==
    /\ Len(after.players) = Len(m.players)
    /\ \A i \in 1..Len(m.players) :
          after.players[i] =
              IF m.players[i].id = playerId
              THEN [m.players[i] EXCEPT !.connected = FALSE]
              ELSE m.players[i]
    /\ after = [m EXCEPT !.players = after.players]

SlotsAreReported(m, state, results) ==
    \A i \in 1..Len(m.players) :
        /\ \E j \in 1..Len(state.players) :
              /\ state.players[j].id = m.players[i].id
              /\ state.players[j].state = m.players[i].physics.state
              /\ state.players[j].score = m.players[i].physics.score
        /\ \E j \in 1..Len(results) : results[j].playerId = m.players[i].id

TickSkipsDisconnected(m, after) ==
    /\ Len(after.players) = Len(m.players)
    /\ \A i \in 1..Len(m.players) :
          ~m.players[i].connected => after.players[i] = m.players[i]

C13_RemovePlayerOnlyMarks ==
    /\ \A p \in PlayerIds : RemoveOnlyMarks(match, removePlayer(match, p), p)
    /\ SlotsAreReported(match, getState(match), finalResults(match))
    /\ match.status = ACTIVE => TickSkipsDisconnected(match, tickRun(match).match)

\* after a tick of an ACTIVE match: a disconnected slot that still holds a
\* queued input and its initial physics state, beside a player that moved
C13_Witness ==
    /\ match.currentTick >= 1
    /\ \E i, j \in 1..Len(match.players) :
          /\ ~match.players[i].connected
          /\ match.players[i].inputQueue # <<>>
          /\ match.players[i].lastAckedSeq = -1
          /\ match.players[i].physics = newPlayer(match.players[i].id).physics
          /\ match.players[j].connected
          /\ match.players[j].physics.distance > 0

(***************************************************************************)
(* Properties of the server (specification Spec).                          *)
(***************************************************************************)
\* C14: once a connection is closed, every player slot that was added to
\* the match on its behalf is marked disconnected, and no snapshot is sent
\* to it; in every interleaving of the close with the asynchronous handling
\* of its auth messages, and for a connection that sent more than one auth
C14_ClosedConnectionLeavesNoPlayer ==
    \A c \in ConnIds :
        conns[c].readyState = CLOSED =>
            /\ sent[c].type # "snapshot"
            /\ \A p \in owned[c] :
                   hasPlayer(match, p) => ~getPlayer(match, p).connected

(***************************************************************************)
(* Properties of the server's timers (specifications SpecLoop, SpecLive).  *)
(***************************************************************************)
\* the armed timers that run the broadcast loop
BroadcastTimers == {t \in intervals : t.loop = "broadcast"}

ErrorOf(code) == [type |-> "error", code |-> code]

\* C17: a message that does not parse or fails the schema is answered with
\* one error message, to its sender only, and otherwise ignored: no match,
\* roster, input queue, timer or attribute of any connection changes, the
\* connection stays open, and it goes on accepting messages
C17_InvalidMessageIgnored ==
    /\ [][\A c \in ConnIds, code \in RejectCodes :
             InvalidMessage(c, code) =>
                 /\ sent' = [Quiet EXCEPT ![c] = ErrorOf(code)]
                 /\ UNCHANGED <<match, other, registered, intervals, conns,
                                creating, timeouts, broadcastInterval, owned>>
                 /\ conns'[c].readyState = OPEN]_vars
    /\ [](\A c \in ConnIds :
             /\ conns[c].readyState = OPEN =>
                    \A code \in RejectCodes :
                        sendError(conns[c], c, code)[c] = ErrorOf(code)
             /\ sent[c].type = "error" /\ sent[c].code \in RejectCodes =>
                    /\ ENABLED Input(c, 0, BrakeIntent)
                    /\ ENABLED AuthInvalid(c) \/ nextPlayer = Len(PlayerSeq))

\* a joined connection has just been answered invalid_message: it is open,
\* still in its match, and its player is connected
C17_Witness ==
    \E c \in ConnIds :
        /\ sent[c] = ErrorOf("invalid_message")
        /\ conns[c].readyState = OPEN
        /\ conns[c].matchId = MatchId
        /\ hasPlayer(match, conns[c].playerId)
        /\ getPlayer(match, conns[c].playerId).connected

\* the answer to a join of c that fails: the error with the code, if the
\* socket is open to take it, then the close; no roster changes
JoinFails(c, code) ==
    /\ sent' = IF conns[c].readyState = OPEN
               THEN [Quiet EXCEPT ![c] = ErrorOf(code)]
               ELSE Quiet
    /\ conns'[c].readyState # OPEN
    /\ match'.players = match.players
    /\ other'.players = other.players
    /\ registered' = registered
    /\ owned' = owned

C19_HeartbeatClosesSilent ==
    /\ [][Heartbeat =>
             \A c \in ConnIds :
                 conns[c].readyState = OPEN =>
                     IF probes[c] >= 1
                     THEN conns'[c].readyState = CLOSING
                     ELSE /\ conns'[c].readyState = OPEN
                          /\ probes'[c] = 1]_vars
    /\ [](\A c \in ConnIds :
             /\ conns[c].readyState = OPEN => probes[c] <= 1
             /\ probes[c] <= 2
             /\ conns[c].readyState = OPEN => (conns[c].isAlive <=> probes[c] = 0)
             /\ conns[c].readyState = CLOSING => ENABLED Close(c))

\* the second probe after its last pong has terminated a joined connection;
\* the other connection, which answered, is open
C19_Witness ==
    \E c, d \in ConnIds :
        /\ conns[c].readyState = CLOSING
        /\ probes[c] = 2
        /\ hasPlayer(match, conns[c].playerId)
        /\ conns[d].readyState = OPEN
        /\ conns[d].isAlive

(***************************************************************************)
(* Properties of the end of a match (specification SpecEnd).               *)
(***************************************************************************)
\* the armed timers that run the tick of the second match
OtherTickTimers == {t \in intervals : t.loop = "tickOther"}

\* C20: when an update of the hand-off rejects, the match stays COMPLETE
\* with no tick timer, nothing is handed over again, no rejection reaches
\* the caller of end(), and the second match keeps its status, its tick and
\* its armed tick timer
C20_PersistFailureContained ==
    /\ [][PersistReject =>
             /\ match' = match
             /\ other' = other
             /\ intervals' = intervals
             /\ db'.handoffs = db.handoffs
             /\ db'.pending = db.pending - 1
             /\ db'.failures = db.failures + 1
             /\ db'.unhandled = db.unhandled]_vars
    /\ [](/\ db.unhandled = 0
          /\ persistRejected(db).unhandled = 0
          /\ db.failures >= 1 =>
                /\ match.status = COMPLETE
                /\ match.tickInterval = NoTimer
                /\ TickTimers = {}
                /\ db.handoffs = 1
                /\ db.pending = 0
          /\ other.status = ACTIVE => Cardinality(OtherTickTimers) = 1
          /\ other.status # COMPLETE)

\* the hand-off of a match ended by its tick has failed, and the second
\* match has ticked and still runs
C20_Witness ==
    /\ db.failures = 1
    /\ match.status = COMPLETE
    /\ match.currentTick >= 1
    /\ AllTerminal(match)
    /\ other.status = ACTIVE
    /\ other.currentTick >= 1
    /\ OtherTickTimers # {}

(***************************************************************************)
(* Properties of the map generator (specification SpecMap).                *)
(***************************************************************************)
\* the objects of a list, as a set
ObjectsOf(list) == {list[i] : i \in 1..Len(list)}

\* the list the first generateChunk call for the chunk returned
FirstOf(g, chunk) == CHOOSE f \in firsts : f.gen = g /\ f.chunk = chunk

\* C21: every generateChunk call returns the same set of objects as the
\* first call for that chunk on that generator did, and the same set as a
\* freshly constructed generator returns for the chunk, whatever calls
\* came before; a chunk is generated at most once per generator.
C21_ChunkContentIsStable ==
    /\ returned.gen # "none" =>
          /\ ObjectsOf(returned.list) = ObjectsOf(FirstOf(returned.gen, returned.chunk).list)
          /\ ObjectsOf(returned.list) =
                ObjectsOf(freshChunk(newMapGenerator(gens[returned.gen].prng.hi,
                                                     gens[returned.gen].prng.lo),
                                     returned.chunk[1], returned.chunk[2]))
    /\ \A f1, f2 \in firsts : f1.gen = f2.gen /\ f1.chunk = f2.chunk => f1 = f2

\* the chunks both generators have generated
BothGenerated == {chunk \in ChunkCoords : \A g \in Gens : chunk \in gens[g].generatedChunks}

\* C22: the seed of a chunk's generator is a hash of the match seed and the
\* chunk coordinates, the same at every call for the same three; the match
\* seed is an input of it, so two generators built from different match
\* seeds differ in the seed of some chunk and, once both have generated
\* every chunk, in the content of some chunk.
C22_ChunkSeedHashesMatchSeed ==
    \A g1, g2 \in Gens :
        gens[g1].prng # gens[g2].prng =>
            /\ \E chunk \in ChunkCoords :
                  chunkSeed(gens[g1], chunk[1], chunk[2]) # chunkSeed(gens[g2], chunk[1], chunk[2])
            /\ BothGenerated = ChunkCoords =>
                  \E chunk \in ChunkCoords : FirstOf(g1, chunk).list # FirstOf(g2, chunk).list

\* twice a coordinate: its integer part and what is left of it
TwiceFloor(x) == 2 * x.cell + (2 * x.frac) \div 2^(32 - ChunkBits)
TwiceRest(x) == (2 * x.frac) % 2^(32 - ChunkBits)

\* the vertical center line of the chunk the object lies in
CenterLineOf(obj) == (obj.position.x.cell \div CHUNK_SIZE) * CHUNK_SIZE + CHUNK_SIZE \div 2

\* the object is at least half the path width away from the center line
OffPath(obj) ==
    \/ TwiceFloor(obj.position.x) - 2 * CenterLineOf(obj) >= PATH_WIDTH
    \/ TwiceFloor(obj.position.x) < 2 * CenterLineOf(obj) - PATH_WIDTH
    \/ /\ TwiceFloor(obj.position.x) = 2 * CenterLineOf(obj) - PATH_WIDTH
       /\ TwiceRest(obj.position.x) = 0

\* C23: no object that generateChunk returned or that a generator stores
\* is closer to the vertical center line of its chunk than half of
\* PATH_WIDTH.
C23_PathIsClear ==
    /\ \A g \in Gens : \A i \in 1..Len(gens[g].objects) : OffPath(gens[g].objects[i])
    /\ returned.gen # "none" => \A i \in 1..Len(returned.list) : OffPath(returned.list[i])
    /\ \A f \in firsts : \A i \in 1..Len(f.list) : OffPath(f.list[i])

\* a first call has created objects on the path and off it, has returned
\* those off it, and the generator has stored them
C23_Witness ==
    \E f \in firsts :
        /\ Len(f.list) > 0
        /\ Len(f.list) < Len(ChunkPlan)
        /\ \E i \in 1..Len(gens[f.gen].objects) : gens[f.gen].objects[i] = f.list[Len(f.list)]

(***************************************************************************)
(* Properties of checkCollisions (specification SpecCollide).              *)
(***************************************************************************)
\* the square of the distance between two points
DistSq(a, b) == (a.x - b.x) * (a.x - b.x) + (a.y - b.y) * (a.y - b.y)

\* the square of PLAYER_RADIUS + obj.radius
ReachSq(obj) == (PLAYER_RADIUS * Scale + obj.radius) * (PLAYER_RADIUS * Scale + obj.radius)

\* the object is active and its center is closer to the player's than the
\* sum of the radii
Overlaps(player, obj) == obj.active /\ DistSq(player.position, obj.position) < ReachSq(obj)

\* C24: checkCollisions reports a collision exactly when some active
\* object's center is closer to the player's than PLAYER_RADIUS plus the
\* object's radius, and then reports the first such object; an object at
\* exactly that distance and an inactive object are never reported.
C24_CollideIffCloser ==
    result.done /\ args.fn = "checkCollisions" =>
        /\ result.collided <=>
              \E i \in 1..Len(args.objects) : Overlaps(args.player, args.objects[i])
        /\ result.collided =>
              \E i \in 1..Len(args.objects) :
                  /\ result.object = <<args.objects[i]>>
                  /\ Overlaps(args.player, args.objects[i])
                  /\ \A j \in 1..(i - 1) : ~Overlaps(args.player, args.objects[j])
        /\ ~result.collided => result.object = <<>>
        /\ \A i \in 1..Len(args.objects) :
              \/ ~args.objects[i].active
              \/ DistSq(args.player.position, args.objects[i].position) = ReachSq(args.objects[i])
              => result.object # <<args.objects[i]>>

\* the call found no collision for a player on the rim of the only object,
\* an active rock, neither straight above nor beside it
C24_Witness ==
    /\ result.done
    /\ args.fn = "checkCollisions"
    /\ ~result.collided
    /\ Len(args.objects) = 1
    /\ args.objects[1].active
    /\ args.player.position.x # args.objects[1].position.x
    /\ args.player.position.y # args.objects[1].position.y
    /\ DistSq(args.player.position, args.objects[1].position) = ReachSq(args.objects[1])

(***************************************************************************)
(* Properties of the PRNG (specification SpecPrng).                        *)
(***************************************************************************)
\* the calls of a log, without what they returned, and what they returned
CallsOf(log) == [i \in 1..Len(log) |-> [op |-> log[i].op, in |-> log[i].in]]
OutsOf(log) == [i \in 1..Len(log) |-> log[i].out]

IsPrefix(s, t) == Len(s) <= Len(t) /\ SubSeq(t, 1, Len(s)) = s

\* what the call returns on a generator in the state, and the state after
callOn(state, call) ==
    CASE call.op = "next" -> next(state)
      [] call.op = "nextInt" -> nextInt(state, call.in[1], call.in[2])
      [] call.op = "nextFloat" -> nextFloat(state, call.in[1], ChunkBits)
      [] call.op = "chance" -> chance(state)
      [] call.op = "shuffle" -> shuffle(state, call.in)

\* the calls of the log from the i-th on return what the log says when
\* they are made, with no other call between them, on a generator in the
\* state, and leave it in the state last
RECURSIVE replays(_, _, _, _)
replayStep(r, log, i, last) ==
    /\ r.out = log[i].out
    /\ replays(r.state, log, i + 1, last)

replays(state, log, i, last) ==
    IF i > Len(log) THEN state = last
    ELSE replayStep(callOn(state, log[i]), log, i, last)

\* C25: two generators constructed from the same seed return the same
\* outputs for the same sequence of next, nextInt, nextFloat, chance and
\* shuffle calls (and for a sequence and a longer one, on the calls they
\* share), and what a generator returns is what its own calls return when
\* made on a generator of its seed with no call on another in between.
C25_SameSeedSameOutputs ==
    /\ \A g1, g2 \in Gens :
          IsPrefix(CallsOf(drawn[g1]), CallsOf(drawn[g2])) =>
              IsPrefix(OutsOf(drawn[g1]), OutsOf(drawn[g2]))
    /\ \A g \in Gens :
          replays(newPrng(drawn[g][1].in[1], drawn[g][1].in[2]), drawn[g], 2, rng[g])

\* both generators were constructed from one seed and have been called
\* twice each, with the same calls, a shuffle among them
C25_Witness ==
    /\ CallsOf(drawn["a"]) = CallsOf(drawn["b"])
    /\ Len(drawn["a"]) = 3
    /\ \E i \in 2..3 : drawn["a"][i].op = "shuffle" /\ drawn["a"][i].out # Deck
    /\ \E i \in 2..3 : drawn["a"][i].op = "next"

\* C26: the state of a generator is one 32-bit word: after construction
\* and after any number of calls it is an integer of 0 .. 2^32 - 1.
C26_StateIsOneWord ==
    \A g \in Gens : rng[g].hi \in 0..(U16 - 1) /\ rng[g].lo \in 0..(U16 - 1)

(***************************************************************************)
(* Properties of the client (specification SpecClient).                    *)
(***************************************************************************)
\* the entries of a buffer whose seq is above a, in the buffer's order
Above(buffer, a) == SelectSeq(buffer, LAMBDA e : e.seq > a)

\* C27: the handling of a snapshot that acknowledges a leaves in the
\* predicted-input buffer exactly the entries it held with seq > a, in
\* their order; so the buffer never holds an entry with a seq at or below
\* the latest acknowledged one, whatever frames and snapshots came before.
C27_SnapshotKeepsUnacked ==
    /\ [][snapshot' # snapshot =>
             client'.predictedStates = Above(client.predictedStates, snapshot'.ackSeq)]_vars
    /\ [](\A i \in 1..Len(client.predictedStates) :
             /\ client.predictedStates[i].seq > snapshot.ackSeq
             /\ i > 1 => client.predictedStates[i - 1].seq < client.predictedStates[i].seq)

\* a snapshot that acknowledged a sent input has removed an entry from
\* the buffer and has left one
C27_Witness ==
    /\ snapshot.ackSeq >= 1
    /\ snapshot.dropped >= 1
    /\ client.predictedStates # <<>>
    /\ client.predictedStates[1].seq = snapshot.ackSeq + 1

(***************************************************************************)
(* Properties of validatePlayerState (specification SpecValidate).         *)
(***************************************************************************)
\* the square of the length of a vector and of the difference of two
LenSq(v) == v.x * v.x + v.y * v.y

\* the three checks fail: the new speed is above 1.1 MAX_SPEED; the speeds
\* differ by more than 2 (ACCELERATION + TUCK_ACCELERATION_BONUS) dt; the
\* positions are further apart than 2 MAX_SPEED dt
SpeedTooHigh(call) == 100 * ISqrt(LenSq(call.newState.velocity)) > 110 * MAX_SPEED * Scale

AccelerationTooHigh(call) ==
    \/ 1000 * (ISqrt(LenSq(call.newState.velocity)) - ISqrt(LenSq(call.oldState.velocity)))
          > 2 * (ACCELERATION + TUCK_ACCELERATION_BONUS) * Scale * call.dtMs
    \/ 1000 * (ISqrt(LenSq(call.oldState.velocity)) - ISqrt(LenSq(call.newState.velocity)))
          > 2 * (ACCELERATION + TUCK_ACCELERATION_BONUS) * Scale * call.dtMs

Teleported(call) ==
    LenSq(Vec(call.newState.position.x - call.oldState.position.x,
              call.newState.position.y - call.oldState.position.y))
        > ((2 * MAX_SPEED * Scale * call.dtMs) \div 1000)
              * ((2 * MAX_SPEED * Scale * call.dtMs) \div 1000)

Updated == result.done /\ args.fn = "updatePlayer"

\* the same call with jump released
WithoutJump ==
    updatePlayer(args.player, [args.intent EXCEPT !.jump = 0], args.dtMs, args.objects,
                 args.serverTime)

\* C29: one updatePlayer call leaves the state as it is or takes it from
\* SKIING to JUMPING (only with jump = 1), from JUMPING to SKIING, or from
\* SKIING or JUMPING to CRASHED; CRASHED is never left; and on a JUMPING
\* player jump = 1 does what jump = 0 does: no impulse, no restart of the
\* airborne time.
C29_StateTransitions ==
    Updated =>
        /\ \/ result.player.state = args.player.state
           \/ /\ args.player.state = SKIING
              /\ result.player.state = JUMPING
              /\ args.intent.jump = 1
           \/ args.player.state = JUMPING /\ result.player.state = SKIING
           \/ args.player.state \in {SKIING, JUMPING} /\ result.player.state = CRASHED
        /\ args.player.state = CRASHED => result.player.state = CRASHED
        /\ args.player.state = JUMPING =>
              /\ result.player = WithoutJump.player
              /\ result.events = WithoutJump.events
              /\ result.player.airborneTime = args.player.airborneTime + args.dtMs
              /\ result.player.lastJumpY = args.player.lastJumpY

\* a JUMPING player whose jump key is held has landed and hit a rock in
\* the same call
C29_Witness ==
    /\ Updated
    /\ args.player.state = JUMPING
    /\ args.intent.jump = 1
    /\ result.player.state = CRASHED
    /\ \E i \in 1..Len(result.events) : result.events[i].type = "collision"

\* the same call with no object near
WithoutObjects ==
    updatePlayer(args.player, args.intent, args.dtMs, <<>>, args.serverTime)

\* the player holds an invulnerability that ends after the time of the call
Invulnerable ==
    /\ "invulnerable" \in DOMAIN args.player.effectExpiry
    /\ args.player.effectExpiry["invulnerable"] > args.serverTime

\* C30: a player that the call leaves JUMPING, or that holds an
\* invulnerability ending after the call's server time, comes out of the
\* call as if no object were near: not moved to CRASHED, no pickup
\* consumed, no effect gained, the score without penalty or pickup score,
\* and no collision or pickup event.
C30_NoCollisionCheck ==
    Updated /\ (result.player.state = JUMPING \/ Invulnerable) =>
        /\ result.player.state = CRASHED => args.player.state = CRASHED
        /\ result.hit = 0
        /\ result.player.effectExpiry = args.player.effectExpiry
        /\ result.player.score = WithoutObjects.player.score
        /\ result.player = WithoutObjects.player
        /\ \A i \in 1..Len(result.events) : result.events[i].type \notin {"collision", "pickup"}

\* an invulnerable player on the ground has ended the call inside an
\* active rock
C30_Witness ==
    /\ Updated
    /\ Invulnerable
    /\ result.player.state = SKIING
    /\ Len(args.objects) = 1
    /\ args.objects[1].type = "rock"
    /\ checkCollisions(result.player, args.objects) = 1

(***************************************************************************)
(* Properties of pickups and obstacles (specification SpecPickup).         *)
(***************************************************************************)
\* the indices of the events of one type that name player number j
EventsOf(events, type, m, j) ==
    {k \in 1..Len(events) : events[k].type = type /\ events[k].playerId = m.players[j].id}

\* the score player number j of m has after a tick in which no object is
\* near it
ScoreAlone(m, j) ==
    updatePlayer(m.players[j].physics, intentOf(m.players[j]), DtMs, <<>>,
                 serverTimeAt(m.currentTick + 1)).player.score

\* the objects of the store that the step deactivates
Consumed == {i \in 1..Len(match.objects) : match.objects[i].active /\ ~match'.objects[i].active}

\* C31: in every tick, an object that is inactive stays inactive and is not
\* among the objects getObjectsNear returns at any player's position; each
\* pickup the tick deactivates has exactly one pickup event, of one player,
\* and no other pickup event is emitted; a player gains PICKUP_SCORE and an
\* effect only with a pickup event of its own; obstacles stay active.
C31_PickupConsumedOnce ==
    [][match'.currentTick # match.currentTick =>
          /\ \A i \in 1..Len(match.objects) :
                /\ ~match.objects[i].active => ~match'.objects[i].active
                /\ ~isPickup(match.objects[i].type) => match'.objects[i].active
          /\ Cardinality({k \in 1..Len(allEvents') : allEvents'[k].type = "pickup"})
                = Cardinality(Consumed)
          /\ \A i \in Consumed :
                \E k \in 1..Len(allEvents') :
                    /\ allEvents'[k].type = "pickup"
                    /\ allEvents'[k].pickupType = match.objects[i].type
          /\ \A j \in 1..Len(match.players) :
                /\ Cardinality(EventsOf(allEvents', "pickup", match, j)) <= 1
                /\ match'.players[j].physics.score =
                      ScoreAlone(match, j)
                        + PICKUP_SCORE * Cardinality(EventsOf(allEvents', "pickup", match, j))
                        + OBSTACLE_HIT_PENALTY
                            * Cardinality(EventsOf(allEvents', "collision", match, j))
                /\ EventsOf(allEvents', "pickup", match, j) = {} =>
                      match'.players[j].physics.effectExpiry
                          = match.players[j].physics.effectExpiry
                /\ \A n \in 1..Len(getObjectsNear(match'.objects,
                                                   match'.players[j].physics.position.x,
                                                   match'.players[j].physics.position.y,
                                                   OBSTACLE_CHECK_RADIUS * Scale)) :
                      getObjectsNear(match'.objects,
                                     match'.players[j].physics.position.x,
                                     match'.players[j].physics.position.y,
                                     OBSTACLE_CHECK_RADIUS * Scale)[n].active]_vars

\* p1 and p2 ended a tick at the same position within reach of the
\* pickup; p1 alone collected it
C31_Witness ==
    /\ match.players[1].physics.position = match.players[2].physics.position
    /\ match.players[1].physics.state = SKIING
    /\ match.players[2].physics.state = SKIING
    /\ ~match.objects[1].active
    /\ isPickup(match.objects[1].type)
    /\ checkCollisions(match.players[2].physics,
                       << [match.objects[1] EXCEPT !.active = TRUE] >>) = 1
    /\ Len(allEvents) = 1
    /\ allEvents[1].type = "pickup"
    /\ allEvents[1].playerId = "p1"
    /\ match.players[2].physics.effectExpiry = << >>

(***************************************************************************)
(* Properties of the collision of one updatePlayer call (specification     *)
(* SpecUpdate).                                                            *)
(***************************************************************************)
\* the indices of the call's events of one of the types
EventsOfType(types) == {k \in 1..Len(result.events) : result.events[k].type \in types}

\* the first of the call's objects that the player overlaps where the call
\* has moved it to (the collision branch does not move the player)
FirstHits ==
    {i \in 1..Len(args.objects) :
        /\ Overlaps(result.player, args.objects[i])
        /\ \A j \in 1..(i - 1) : ~Overlaps(result.player, args.objects[j])}

\* C32: one updatePlayer call emits at most one collision or pickup event
\* and consumes at most one pickup; a collision event names the first
\* object in the order of the list that the moved player overlaps, an
\* obstacle, and the player, which is then CRASHED with velocity (0, 0)
\* and the score of the same call without objects plus
\* OBSTACLE_HIT_PENALTY; a player on the ground without invulnerability
\* whose first overlapped object is an obstacle gets that event, and
\* without the event no player becomes CRASHED.
C32_OneHitPerCall ==
    Updated =>
        /\ Cardinality(EventsOfType({"collision", "pickup"})) <= 1
        /\ result.hit # 0 => result.hit \in FirstHits /\ EventsOfType({"collision"}) = {}
        /\ \A k \in EventsOfType({"collision"}) :
              /\ \E i \in FirstHits :
                    /\ ~isPickup(args.objects[i].type)
                    /\ result.events[k].objectId = args.objects[i].id
              /\ result.events[k].playerId = args.player.id
              /\ result.player.state = CRASHED
              /\ result.player.velocity = Vec(0, 0)
              /\ result.player.score = WithoutObjects.player.score + OBSTACLE_HIT_PENALTY
        /\ /\ WithoutObjects.player.state = SKIING
           /\ ~Invulnerable
           /\ \E i \in FirstHits : ~isPickup(args.objects[i].type)
           => EventsOfType({"collision"}) # {}
        /\ EventsOfType({"collision"}) = {} /\ args.player.state # CRASHED =>
              result.player.state # CRASHED

\* a player on the ground that ended the call overlapping the only object,
\* a rock, has crashed: it stands still, one collision event names the
\* rock, and its score has dropped below 0
C32_Witness ==
    /\ Updated
    /\ args.player.state = SKIING
    /\ Len(args.objects) = 1
    /\ FirstHits = {1}
    /\ result.player.state = CRASHED
    /\ result.player.velocity = Vec(0, 0)
    /\ Len(result.events) = 1
    /\ result.events[1].type = "collision"
    /\ result.events[1].objectId = args.objects[1].id
    /\ result.player.score < 0

(***************************************************************************)
(* Properties of the landing of one updatePlayer call (specification       *)
(* SpecUpdate).                                                            *)
(***************************************************************************)
\* the player is in the air during the call: it was JUMPING, or it was
\* SKIING and jumps
InAir ==
    \/ args.player.state = JUMPING
    \/ args.player.state = SKIING /\ args.intent.jump = 1

\* the airborne time and the vertical velocity after "Apply gravity"
AirTime == (IF args.player.state = JUMPING THEN args.player.airborneTime ELSE 0) + args.dtMs

FallSpeed ==
    args.player.velocity.y
        + (IF args.player.state = SKIING THEN JUMP_VELOCITY * Scale ELSE 0)
        - ((GRAVITY * Scale * args.dtMs) \div 1000)

\* the player lands in the call
Lands == InAir /\ FallSpeed <= 0 /\ AirTime >= AIRBORNE_DURATION_MIN_MS

\* the same call on a player that has been in the air for longer than any
\* trick
PastTheWindow ==
    updatePlayer([args.player EXCEPT !.airborneTime = AIRBORNE_DURATION_MAX_MS],
                 args.intent, args.dtMs, args.objects, args.serverTime)

\* C33: a call emits a trick event only if the player lands in it (it is
\* in the air, its vertical velocity after gravity is at most 0 and its
\* airborne time at least AIRBORNE_DURATION_MIN), and then exactly when
\* the airborne time is at most AIRBORNE_DURATION_MAX; the event is one, it
\* names the player, its score is floor(TRICK_SCORE_BASE * airborneTime /
\* AIRBORNE_DURATION_MAX) and the player's score is higher by it than after
\* a landing outside the window; a player in the air that does not land
\* stays JUMPING.
C33_TrickOnLanding ==
    Updated /\ args.player.state # CRASHED =>
        /\ EventsOfType({"trick"}) # {} => Lands
        /\ Lands => (EventsOfType({"trick"}) # {} <=> AirTime <= AIRBORNE_DURATION_MAX_MS)
        /\ Lands => result.player.state \in {SKIING, CRASHED}
        /\ InAir /\ ~Lands => result.player.state = JUMPING
        /\ Cardinality(EventsOfType({"trick"})) <= 1
        /\ \A k \in EventsOfType({"trick"}) :
              /\ result.events[k].playerId = args.player.id
              /\ result.events[k].score * AIRBORNE_DURATION_MAX_MS <= TRICK_SCORE_BASE * AirTime
              /\ (result.events[k].score + 1) * AIRBORNE_DURATION_MAX_MS
                    > TRICK_SCORE_BASE * AirTime
              /\ result.player.score = PastTheWindow.player.score + result.events[k].score

\* a player has landed at the very start of the trick window and has got
\* the fifth of TRICK_SCORE_BASE that AIRBORNE_DURATION_MIN is of
\* AIRBORNE_DURATION_MAX
C33_Witness ==
    /\ Updated
    /\ args.player.state = JUMPING
    /\ Lands
    /\ AirTime = AIRBORNE_DURATION_MIN_MS
    /\ result.player.state = SKIING
    /\ \E k \in 1..Len(result.events) :
          /\ result.events[k].type = "trick"
          /\ result.events[k].score * 5 = TRICK_SCORE_BASE
          /\ result.player.score >= args.player.score + result.events[k].score

(***************************************************************************)
(* Properties of the speed of one updatePlayer call (specification         *)
(* SpecUpdate).                                                            *)
(***************************************************************************)
\* the same call with the tuck key the other way
WithOtherTuck ==
    updatePlayer(args.player, [args.intent EXCEPT !.tuck = 1 - @], args.dtMs, args.objects,
                 args.serverTime)

\* C34: a call on a player that is not CRASHED leaves its speed field
\* within [MIN_SPEED, MAX_SPEED], whatever the intent, the state and the
\* velocity before, also when the call ends in a crash; with the brake
\* held, the tuck key changes nothing.
C34_SpeedWithinLimits ==
    Updated /\ args.player.state # CRASHED =>
        /\ result.player.speed >= MIN_SPEED * Scale
        /\ result.player.speed <= MAX_SPEED * Scale
        /\ args.intent.brake = 1 =>
              /\ result.player = WithOtherTuck.player
              /\ result.events = WithOtherTuck.events

\* a player at MIN_SPEED has braked with the tuck key held: the braking
\* alone would have taken it below MIN_SPEED, and its speed is MIN_SPEED
C34_Witness ==
    /\ Updated
    /\ args.player.state = SKIING
    /\ args.intent.brake = 1
    /\ args.intent.tuck = 1
    /\ 1000 * forwardSpeed(args.player.velocity)
          - BRAKE_DECELERATION * Scale * args.dtMs < 1000 * MIN_SPEED * Scale
    /\ result.player.speed = MIN_SPEED * Scale

C36_AckNeverDecreases ==
    [][\A i \in 1..Len(match.players) :
          match'.players[i].lastAckedSeq >= match.players[i].lastAckedSeq]_vars

(***************************************************************************)
(* Properties of a jump (specification SpecJump).                          *)
(***************************************************************************)
\* C37: in a match that keeps ticking, a player that is JUMPING is
\* eventually no longer JUMPING, whatever the intents.
C37_JumpingPlayerLands ==
    (result.player.state = JUMPING) ~> (result.player.state # JUMPING)

(***************************************************************************)
(* Properties of updatePlayer against validatePlayerState (specification   *)
(* SpecUpdate)                                                             *)
(***************************************************************************)
\* C38: the state a call of updatePlayer started from and the state it has
\* left are accepted by validatePlayerState with the dt of the call.
C38_UpdateAccepted ==
    result.done => validatePlayerState(args.player, result.player, args.dtMs).valid

(***************************************************************************)
(* Properties of quick matches (specification SpecQuick)                   *)
(***************************************************************************)
\* C39: the auth requests for a quick race that find no match are placed
\* into one new match: the map never holds two matches in LOBBY that both
\* have a free place.
C39_OneMatchCreated ==
    ~(available(match, registered) /\ available(other, otherRegistered(other)))

(***************************************************************************)
(* Properties of the client's WebSocketClient (specification SpecSocket)   *)
(***************************************************************************)
\* C40: while disconnect() is the latest call the application made, the
\* client constructs no socket and schedules no reconnection.
C40_NoReconnectAfterDisconnect ==
    [][wsClient.requested /\ wsClient'.requested
           => /\ Len(wsClient'.sockets) = Len(wsClient.sockets)
              /\ wsClient'.timers <= wsClient.timers]_vars

====
